---- MODULE Spec2Model ----
(***************************************************************************)
(* State-machine model of WebSocketPacmanServer (src/server.py): the       *)
(* player registry, role assignment, the evader colour pool, collision     *)
(* resolution, arena switching, the respawn pass run by every broadcast    *)
(* and the calls made to the rating database.                              *)
(*                                                                         *)
(* Every handler runs on one asyncio event loop and suspends only at its   *)
(* socket I/O (receiving the next message, the send of a snapshot), so     *)
(* each action below is one handler run from one suspension point to the   *)
(* next.                                                                   *)
(***************************************************************************)
EXTENDS Integers, Sequences, FiniteSets, TLC

VARIABLES
    players,            \* self.players: player id -> player record
    pacman_player_id,   \* self.pacman_player_id: a player id or None
    player_counter,     \* self.player_counter
    connected_clients,  \* self.connected_clients (a socket is named by its player id)
    used_ghost_colors,  \* self.used_ghost_colors
    current_map,        \* self.current_map (0-based index into self.maps)
    map_dots,           \* self.maps[i]['dots'], i = 1..NumMaps (self.dots aliases one of them)
    map_pellets,        \* self.maps[i]['power_pellets'] (self.power_pellets aliases one of them)
    last_respawn_time,  \* self.last_respawn_time
    now,                \* the wall clock read by datetime.now(), in seconds since start
    db_calls,           \* the update_player_rating calls made by the latest handler run
    last_event,         \* the latest handler run and the inputs it was given
    events,             \* the number of steps taken so far
    closing,            \* sockets whose transport has closed and whose handler has not yet
                        \* run its cleanup: a send to one of them raises ConnectionClosed
    sent,               \* what the latest handler run handed to the sockets
    waiting,            \* players whose handle_message is suspended in the send of a
                        \* reply or relay, its broadcast still to come
    handlers            \* players whose handle_client coroutine has not finished

vars == <<players, pacman_player_id, player_counter, connected_clients,
          used_ghost_colors, current_map, map_dots, map_pellets,
          last_respawn_time, now, db_calls, last_event, events, closing, sent,
          waiting, handlers>>

(***************************************************************************)
(* Bounds of the model.                                                    *)
(***************************************************************************)
MaxJoins == 3           \* connections accepted over the server's life
MaxEvents == 5          \* steps explored by Spec
MaxRoleEvents == 10     \* steps explored by SpecRoles
MaxPowerEvents == 7     \* steps explored by SpecPower
MaxMsgEvents == 5       \* steps explored by SpecMsgs
MaxTimerEvents == 5     \* steps explored by SpecTimer
TimerLeft == 3          \* SpecTimer starts with at most this much left on the power timer
NumMaps == 2            \* the first NumMaps of the five arenas are modelled
DotsPerMap == 1         \* collectibles generated per arena (the code draws 100 to 150)
MaxClock == 60          \* the clock stops advancing here
MaxScore == 450         \* events that would raise a score above this are not taken
MaxLivesLost == 4       \* events that would take lives below 3 - MaxLivesLost are not taken

(***************************************************************************)
(* Program constants.                                                      *)
(***************************************************************************)
None == 0               \* Python's None where a player id is expected (ids start at 1)
NoPos == <<0, 0>>       \* an event that carries no position
NoMap == 0 - 2          \* an event that carries no map_id
HunterColor == <<255, 255, 0>>
ghost_colors_available ==
    << <<173, 216, 230>>, <<255, 182, 193>>, <<152, 251, 152>>, <<221, 160, 221>>,
       <<240, 248, 255>>, <<176, 224, 230>>, <<255, 250, 205>> >>
dot_respawn_interval == 30
InitialLives == 3
PowerDuration == 300
FreezeBonus == 200
HalfPlayer == 15        \* player_size // 2, and the 15 of the collision boxes
HalfIcicle == 5

Wall(x, y, w, h) == [x |-> x, y |-> y, width |-> w, height |-> h]

generate_forest_walls ==
    {Wall(50 + 60 * i, 50, 50, 25) : i \in 0..14} \cup
    {Wall(50 + 60 * i, 650, 50, 25) : i \in 0..14} \cup
    {Wall(50, 50 + 60 * i, 25, 50) : i \in 0..9} \cup
    {Wall(925, 50 + 60 * i, 25, 50) : i \in 0..9} \cup
    {Wall(200, 150, 40, 80), Wall(600, 150, 40, 80), Wall(300, 400, 40, 80),
     Wall(700, 400, 40, 80), Wall(150, 300, 30, 60), Wall(750, 300, 30, 60)}

generate_ice_maze_walls ==
    {Wall(50 + 50 * i, 50, 40, 20) : i \in 0..17} \cup
    {Wall(50 + 50 * i, 650, 40, 20) : i \in 0..17} \cup
    {Wall(50, 50 + 50 * i, 20, 40) : i \in 0..11} \cup
    {Wall(930, 50 + 50 * i, 20, 40) : i \in 0..11} \cup
    {Wall(200, 100, 300, 15), Wall(600, 100, 15, 200), Wall(100, 300, 250, 15),
     Wall(650, 300, 250, 15), Wall(300, 400, 15, 150), Wall(500, 400, 15, 150),
     Wall(200, 500, 200, 15), Wall(600, 500, 200, 15)}

\* The ring of twelve walls has floating-point corners (450 + 300 cos a - 20, ...).
\* Players have integer coordinates here, and for an integer n and a float f,
\* n > f is n > floor(f) and n < f is n < ceiling(f): each wall is given by the
\* floor of its left/top edge and the ceiling of its right/bottom edge.
generate_aurora_walls ==
    {Wall(730, 340, 40, 20), Wall(689, 440, 41, 20), Wall(580, 513, 40, 21),
     Wall(430, 540, 40, 20), Wall(280, 513, 41, 21), Wall(170, 440, 41, 20),
     Wall(130, 340, 40, 20), Wall(170, 239, 41, 21), Wall(279, 166, 41, 21),
     Wall(429, 140, 41, 20), Wall(580, 166, 40, 21), Wall(689, 239, 41, 21)} \cup
    {Wall(350, 250, 15, 80), Wall(550, 250, 15, 80), Wall(350, 450, 15, 80),
     Wall(550, 450, 15, 80), Wall(400, 300, 100, 15), Wall(400, 400, 100, 15)}

Houses == {<<100, 100, 120, 100>>, <<700, 100, 120, 100>>, <<100, 450, 120, 100>>,
           <<700, 450, 120, 100>>, <<350, 280, 150, 120>>}

generate_village_walls ==
    {Wall(h[1], h[2], h[3], h[4]) : h \in Houses} \cup
    {Wall(h[1] - 10, h[2] - 15, h[3] + 20, 15) : h \in Houses} \cup
    {Wall(250, 150, 25, 60), Wall(550, 150, 25, 60), Wall(250, 500, 25, 60),
     Wall(550, 500, 25, 60)}

generate_ice_spiral_walls ==
    {Wall(100, 100, 700, 15), Wall(100, 100, 15, 500), Wall(100, 600, 700, 15),
     Wall(800, 100, 15, 500), Wall(150, 150, 600, 15), Wall(150, 150, 15, 400),
     Wall(150, 550, 600, 15), Wall(750, 150, 15, 400), Wall(200, 200, 500, 15),
     Wall(200, 200, 15, 300), Wall(200, 500, 500, 15), Wall(700, 200, 15, 300)}

\* The static part of generate_winter_maps: walls and spawn points of the five arenas.
generate_winter_maps ==
    << [name |-> "Winter Forest", walls |-> generate_forest_walls,
        pacman_spawn |-> <<400, 500>>,
        ghost_spawns |-> << <<400, 300>>, <<300, 300>>, <<500, 300>>, <<400, 200>> >>],
       [name |-> "Ice Maze", walls |-> generate_ice_maze_walls,
        pacman_spawn |-> <<100, 100>>,
        ghost_spawns |-> << <<800, 600>>, <<800, 100>>, <<100, 600>>, <<450, 350>> >>],
       [name |-> "Aurora Circle", walls |-> generate_aurora_walls,
        pacman_spawn |-> <<100, 350>>,
        ghost_spawns |-> << <<800, 350>>, <<450, 100>>, <<450, 600>>, <<450, 350>> >>],
       [name |-> "Snow Village", walls |-> generate_village_walls,
        pacman_spawn |-> <<150, 150>>,
        ghost_spawns |-> << <<750, 550>>, <<750, 150>>, <<150, 550>>, <<450, 350>> >>],
       [name |-> "Ice Spiral", walls |-> generate_ice_spiral_walls,
        pacman_spawn |-> <<450, 450>>,
        ghost_spawns |-> << <<100, 100>>, <<800, 100>>, <<100, 600>>, <<800, 600>> >>] >>

\* self.maps, cut to the arenas the model covers.
maps == SubSeq(generate_winter_maps, 1, NumMaps)

\* Power-item positions of arena map_id (1-based, as the generator is called).
generate_icicles_for_map(map_id) ==
    LET positions ==
          IF map_id = 1 THEN << <<120, 120>>, <<880, 120>>, <<120, 580>>, <<880, 580>> >>
          ELSE IF map_id = 2 THEN << <<180, 180>>, <<820, 180>>, <<180, 520>>, <<820, 520>> >>
          ELSE IF map_id = 3 THEN << <<200, 200>>, <<700, 200>>, <<200, 500>>, <<700, 500>> >>
          ELSE IF map_id = 4 THEN << <<250, 250>>, <<750, 250>>, <<250, 450>>, <<750, 450>> >>
          ELSE << <<200, 200>>, <<700, 200>>, <<200, 500>>, <<700, 500>> >>
    IN [i \in 1..Len(positions) |->
          [x |-> positions[i][1], y |-> positions[i][2], eaten |-> FALSE]]

\* The collectibles are drawn at random when the server starts (x in 80..920,
\* y in 80..620, size in 2..5, one of three types).  The model places the k-th
\* collectible of every arena at DotPlaces[k] and lets Init draw its type.
DotTypes == {"regular", "crystal", "star"}
DotPlaces == << <<410, 505, 3>>, <<110, 105, 2>>, <<400, 290, 5>> >>


(***************************************************************************)
(* Pure helpers.                                                           *)
(***************************************************************************)

\* Two axis-aligned boxes overlap (strictly), as every collision test is written.
RectOverlap(l1, r1, t1, b1, l2, r2, t2, b2) ==
    l1 < r2 /\ r1 > l2 /\ t1 < b2 /\ b1 > t2

check_wall_collision(walls, x, y) ==
    \E wall \in walls :
        /\ x + HalfPlayer > wall.x
        /\ x - HalfPlayer < wall.x + wall.width
        /\ y + HalfPlayer > wall.y
        /\ y - HalfPlayer < wall.y + wall.height

get_valid_position(walls, old_x, old_y, new_x, new_y) ==
    IF ~check_wall_collision(walls, new_x, new_y) THEN <<new_x, new_y>>
    ELSE IF ~check_wall_collision(walls, new_x, old_y) THEN <<new_x, old_y>>
    ELSE IF ~check_wall_collision(walls, old_x, new_y) THEN <<old_x, new_y>>
    ELSE <<old_x, old_y>>

\* rnd is the index random.choice draws when every pool colour is marked used.
get_ghost_color(used, rnd) ==
    LET available_colors == SelectSeq(ghost_colors_available, LAMBDA c : c \notin used)
    IN IF available_colors # << >>
       THEN [color |-> available_colors[1], used |-> used \cup {available_colors[1]}]
       ELSE [color |-> ghost_colors_available[rnd], used |-> used]

\* The draws random.choice(self.ghost_colors_available) can make; it is called
\* only when no pool colour is free.
ColorDraws(used) ==
    IF \E i \in 1..Len(ghost_colors_available) : ghost_colors_available[i] \notin used
    THEN {1} ELSE 1..Len(ghost_colors_available)

\* assign_roles without the demotion of the players that are not the hunter.
assign_roles_keeps_roles(ps, pac, pick) ==
    IF DOMAIN ps = {} THEN [players |-> ps, pacman_player_id |-> pac]
    ELSE LET hunter == IF pac = None \/ pac \notin DOMAIN ps THEN pick ELSE pac
         IN [players |->
               [p \in DOMAIN ps |->
                  IF p = hunter
                  THEN [ps[p] EXCEPT !.role = "pacman", !.color = HunterColor]
                  ELSE ps[p]],
             pacman_player_id |-> hunter]

\* assign_roles that draws a hunter on every call, designated or not.
assign_roles_repicks(ps, pac, pick) ==
    IF DOMAIN ps = {} THEN [players |-> ps, pacman_player_id |-> pac]
    ELSE LET hunter == pick
         IN [players |->
               [p \in DOMAIN ps |->
                  IF p = hunter
                  THEN [ps[p] EXCEPT !.role = "pacman", !.color = HunterColor]
                  ELSE [ps[p] EXCEPT !.role = "ghost"]],
             pacman_player_id |-> hunter]

\* assign_roles that gives the hunter its role but not the hunter colour.
assign_roles_keeps_color(ps, pac, pick) ==
    IF DOMAIN ps = {} THEN [players |-> ps, pacman_player_id |-> pac]
    ELSE LET hunter == IF pac = None \/ pac \notin DOMAIN ps THEN pick ELSE pac
         IN [players |->
               [p \in DOMAIN ps |->
                  IF p = hunter
                  THEN [ps[p] EXCEPT !.role = "pacman"]
                  ELSE [ps[p] EXCEPT !.role = "ghost"]],
             pacman_player_id |-> hunter]

\* pick is the player random.choice draws when no hunter is designated.  Every
\* record is created by handle_client with 'lives', 'score' and 'color' present,
\* so the three "if ... not in" branches of the loop never run.
assign_roles(ps, pac, pick) ==
    IF DOMAIN ps = {} THEN [players |-> ps, pacman_player_id |-> pac]
    ELSE LET hunter == IF pac = None \/ pac \notin DOMAIN ps THEN pick ELSE pac
         IN [players |->
               [p \in DOMAIN ps |->
                  IF p = hunter
                  THEN [ps[p] EXCEPT !.role = "pacman", !.color = HunterColor]
                  ELSE [ps[p] EXCEPT !.role = "ghost"]],
             pacman_player_id |-> hunter]

\* The picks random.choice(player_ids) can make: any player when one is drawn,
\* a single dummy when none is (empty registry, or a hunter is designated).
Picks(ps, pac) ==
    IF DOMAIN ps # {} /\ (pac = None \/ pac \notin DOMAIN ps) THEN DOMAIN ps ELSE {None}

SeqToSet(s) == {s[i] : i \in 1..Len(s)}

\* self.dots and self.power_pellets alias the lists of the active arena.
dots == map_dots[current_map + 1]
power_pellets == map_pellets[current_map + 1]

SnowflakePoints(type) ==
    IF type = "crystal" THEN 15 ELSE IF type = "star" THEN 20 ELSE 10

\* The collectibles the hunter's box at (x, y) takes.
SnowflakeHit(ds, x, y) ==
    {i \in 1..Len(ds) :
        /\ ~ds[i].eaten
        /\ RectOverlap(x - HalfPlayer, x + HalfPlayer, y - HalfPlayer, y + HalfPlayer,
                       ds[i].x - ds[i].size, ds[i].x + ds[i].size,
                       ds[i].y - ds[i].size, ds[i].y + ds[i].size)}

RECURSIVE SumPoints(_, _)
SumPoints(ds, hit) ==
    IF hit = {} THEN 0
    ELSE LET i == CHOOSE j \in hit : TRUE
         IN SnowflakePoints(ds[i].type) + SumPoints(ds, hit \ {i})

\* check_snowflake_collision that awards the base 10 points whatever the type.
check_snowflake_collision_flat(ds, score, x, y) ==
    LET hit == SnowflakeHit(ds, x, y)
    IN [dots |-> [i \in 1..Len(ds) |-> IF i \in hit THEN [ds[i] EXCEPT !.eaten = TRUE]
                                                    ELSE ds[i]],
        score |-> score + 10 * Cardinality(hit)]

\* check_snowflake_collision: [dots, score] after the loop.
check_snowflake_collision(ds, score, x, y) ==
    LET hit == SnowflakeHit(ds, x, y)
    IN [dots |-> [i \in 1..Len(ds) |-> IF i \in hit THEN [ds[i] EXCEPT !.eaten = TRUE]
                                                    ELSE ds[i]],
        score |-> score + SumPoints(ds, hit)]

IcicleHit(pel, x, y) ==
    {i \in 1..Len(pel) :
        /\ ~pel[i].eaten
        /\ RectOverlap(x - HalfPlayer, x + HalfPlayer, y - HalfPlayer, y + HalfPlayer,
                       pel[i].x - HalfIcicle, pel[i].x + HalfIcicle,
                       pel[i].y - HalfIcicle, pel[i].y + HalfIcicle)}

\* check_icicle_collision: the power-items and the player's record after the loop.
check_icicle_collision(pel, pl, x, y) ==
    LET hit == IcicleHit(pel, x, y)
    IN [power_pellets |-> [i \in 1..Len(pel) |->
                             IF i \in hit THEN [pel[i] EXCEPT !.eaten = TRUE] ELSE pel[i]],
        player |-> IF hit = {} THEN pl
                   ELSE [pl EXCEPT !.power_mode = TRUE, !.power_timer = PowerDuration]]


(***************************************************************************)
(* Hunter-evader resolution.  A world w is the part of the server state    *)
(* the loop reads and writes: [players, pacman_player_id,                  *)
(* used_ghost_colors, db_calls], and raised: an exception has left the     *)
(* loop.                                                                   *)
(***************************************************************************)

RECURSIVE SortedIds(_)
\* The iteration order of self.players: dicts keep insertion order and ids
\* are handed out in increasing order.
SortedIds(S) ==
    IF S = {} THEN << >>
    ELSE LET m == CHOOSE a \in S : \A b \in S : a <= b
         IN <<m>> \o SortedIds(S \ {m})

NullName == "<null>"    \* a 'name' field holding JSON null

\* The names sqlite3 can bind and find again: update_player_rating raises on a
\* name that is None (fetchone() returns None, which is then subscripted) and on
\* a list or an object (the parameter cannot be bound), before writing anything.
Bindable(username) == username # NullName

update_player_rating(calls, username, score, is_win) ==
    Append(calls, [username |-> username, score |-> score, is_win |-> is_win])

\* Lines 808-828: the hunter's lives are spent.  pick, sp and rnd are the draws
\* of assign_roles, of the spawn choice and of get_ghost_color.
HunterDeath(w, cm, old_pacman, pick, sp, rnd) ==
    LET calls == update_player_rating(w.db_calls, w.players[old_pacman].name,
                                      w.players[old_pacman].score, FALSE)
        ar == assign_roles(w.players, None, pick)
        gc == get_ghost_color(w.used_ghost_colors, rnd)
    IN IF ~Bindable(w.players[old_pacman].name)
       THEN [w EXCEPT !.raised = TRUE]    \* line 818 raises
       ELSE [players |-> [ar.players EXCEPT ![old_pacman].x = sp[1],
                                            ![old_pacman].y = sp[2],
                                            ![old_pacman].color = gc.color],
             pacman_player_id |-> ar.pacman_player_id,
             used_ghost_colors |-> gc.used,
             db_calls |-> calls,
             raised |-> FALSE]

\* GhostStep in which a hunter in power-mode takes the bonus but the evader
\* stays where it is.
GhostStep_no_teleport(w, cm, player_id, x, y, power_mode, ghost_id) ==
    LET ghost_data == w.players[ghost_id]
    IN IF /\ ghost_id # player_id
          /\ ghost_data.role = "ghost"
          /\ RectOverlap(x - HalfPlayer, x + HalfPlayer, y - HalfPlayer, y + HalfPlayer,
                         ghost_data.x - HalfPlayer, ghost_data.x + HalfPlayer,
                         ghost_data.y - HalfPlayer, ghost_data.y + HalfPlayer)
       THEN IF power_mode
            THEN {[w EXCEPT !.players[player_id].score = @ + FreezeBonus]}
            ELSE LET w1 == [w EXCEPT !.players[player_id].lives = @ - 1]
                 IN IF w1.players[player_id].lives < InitialLives - MaxLivesLost
                    THEN {}
                    ELSE IF w1.players[player_id].lives <= 0
                    THEN {HunterDeath([w1 EXCEPT !.pacman_player_id = None], cm,
                                      player_id, pick, sp, rnd)
                            : pick \in DOMAIN w1.players,
                              sp \in SeqToSet(cm.ghost_spawns),
                              rnd \in ColorDraws(w1.used_ghost_colors)}
                    ELSE {[w1 EXCEPT !.players[player_id].x = cm.pacman_spawn[1],
                                     !.players[player_id].y = cm.pacman_spawn[2]]}
       ELSE {w}

\* GhostStep in which a hunter that loses a life and has lives left stays where
\* it is.
GhostStep_no_respawn(w, cm, player_id, x, y, power_mode, ghost_id) ==
    LET ghost_data == w.players[ghost_id]
    IN IF /\ ghost_id # player_id
          /\ ghost_data.role = "ghost"
          /\ RectOverlap(x - HalfPlayer, x + HalfPlayer, y - HalfPlayer, y + HalfPlayer,
                         ghost_data.x - HalfPlayer, ghost_data.x + HalfPlayer,
                         ghost_data.y - HalfPlayer, ghost_data.y + HalfPlayer)
       THEN IF power_mode
            THEN {[w EXCEPT !.players[ghost_id].x = sp[1],
                            !.players[ghost_id].y = sp[2],
                            !.players[player_id].score = @ + FreezeBonus]
                    : sp \in SeqToSet(cm.ghost_spawns)}
            ELSE LET w1 == [w EXCEPT !.players[player_id].lives = @ - 1]
                 IN IF w1.players[player_id].lives < InitialLives - MaxLivesLost
                    THEN {}
                    ELSE IF w1.players[player_id].lives <= 0
                    THEN {HunterDeath([w1 EXCEPT !.pacman_player_id = None], cm,
                                      player_id, pick, sp, rnd)
                            : pick \in DOMAIN w1.players,
                              sp \in SeqToSet(cm.ghost_spawns),
                              rnd \in ColorDraws(w1.used_ghost_colors)}
                    ELSE {w1}
       ELSE {w}

\* GhostStep in which an evader catches the hunter whether or not the hunter is
\* in power-mode.
GhostStep_always_caught(w, cm, player_id, x, y, power_mode, ghost_id) ==
    LET ghost_data == w.players[ghost_id]
    IN IF /\ ghost_id # player_id
          /\ ghost_data.role = "ghost"
          /\ RectOverlap(x - HalfPlayer, x + HalfPlayer, y - HalfPlayer, y + HalfPlayer,
                         ghost_data.x - HalfPlayer, ghost_data.x + HalfPlayer,
                         ghost_data.y - HalfPlayer, ghost_data.y + HalfPlayer)
       THEN LET w1 == [w EXCEPT !.players[player_id].lives = @ - 1]
            IN IF w1.players[player_id].lives < InitialLives - MaxLivesLost
               THEN {}
               ELSE IF w1.players[player_id].lives <= 0
               THEN {HunterDeath([w1 EXCEPT !.pacman_player_id = None], cm,
                                 player_id, pick, sp, rnd)
                       : pick \in DOMAIN w1.players,
                         sp \in SeqToSet(cm.ghost_spawns),
                         rnd \in ColorDraws(w1.used_ghost_colors)}
               ELSE {[w1 EXCEPT !.players[player_id].x = cm.pacman_spawn[1],
                                !.players[player_id].y = cm.pacman_spawn[2]]}
       ELSE {w}

\* One iteration of the loop of check_ghost_collision, for ghost_id: the set of
\* worlds it can leave.  (x, y) and power_mode are the values read before the loop.
GhostStep(w, cm, player_id, x, y, power_mode, ghost_id) ==
    LET ghost_data == w.players[ghost_id]
    IN IF /\ ghost_id # player_id
          /\ ghost_data.role = "ghost"
          /\ RectOverlap(x - HalfPlayer, x + HalfPlayer, y - HalfPlayer, y + HalfPlayer,
                         ghost_data.x - HalfPlayer, ghost_data.x + HalfPlayer,
                         ghost_data.y - HalfPlayer, ghost_data.y + HalfPlayer)
       THEN IF power_mode
            THEN {[w EXCEPT !.players[ghost_id].x = sp[1],
                            !.players[ghost_id].y = sp[2],
                            !.players[player_id].score = @ + FreezeBonus]
                    : sp \in SeqToSet(cm.ghost_spawns)}
            ELSE LET w1 == [w EXCEPT !.players[player_id].lives = @ - 1]
                 IN IF w1.players[player_id].lives < InitialLives - MaxLivesLost
                    THEN {}   \* beyond the model's bound on lives: see InBounds
                    ELSE IF w1.players[player_id].lives <= 0
                    THEN {HunterDeath([w1 EXCEPT !.pacman_player_id = None], cm,
                                      player_id, pick, sp, rnd)
                            : pick \in DOMAIN w1.players,
                              sp \in SeqToSet(cm.ghost_spawns),
                              rnd \in ColorDraws(w1.used_ghost_colors)}
                    ELSE {[w1 EXCEPT !.players[player_id].x = cm.pacman_spawn[1],
                                     !.players[player_id].y = cm.pacman_spawn[2]]}
       ELSE {w}

RECURSIVE GhostLoop(_, _, _, _, _, _, _)
GhostLoop(w, cm, player_id, x, y, power_mode, ids) ==
    IF ids = << >> \/ w.raised THEN {w}
    ELSE UNION {GhostLoop(w2, cm, player_id, x, y, power_mode, Tail(ids))
                  : w2 \in GhostStep(w, cm, player_id, x, y, power_mode, Head(ids))}

\* check_ghost_collision that resolves the evaders with the power-mode the
\* hunter had when the event began, before the pickups.
check_ghost_collision_before_pickups(w, cm, player_id, x, y) ==
    GhostLoop(w, cm, player_id, x, y, players[player_id].power_mode,
              SortedIds(DOMAIN w.players))

check_ghost_collision(w, cm, player_id, x, y) ==
    GhostLoop(w, cm, player_id, x, y, w.players[player_id].power_mode,
              SortedIds(DOMAIN w.players))

(***************************************************************************)
(* The respawn pass of every broadcast.  Each consumed item is cleared or  *)
(* not by its own random draw: any subset of the consumed items can clear. *)
(***************************************************************************)
\* The respawn pass that restarts the interval whenever it runs, whether or not
\* it cleared anything.
check_snowflake_respawn_restarts(ds, pel, last, t) ==
    IF t - last >= dot_respawn_interval
    THEN {[dots |-> [i \in 1..Len(ds) |->
                        IF i \in rd THEN [ds[i] EXCEPT !.eaten = FALSE] ELSE ds[i]],
           power_pellets |-> [i \in 1..Len(pel) |->
                        IF i \in rp THEN [pel[i] EXCEPT !.eaten = FALSE] ELSE pel[i]],
           last_respawn_time |-> t]
            : rd \in SUBSET {i \in 1..Len(ds) : ds[i].eaten},
              rp \in SUBSET {i \in 1..Len(pel) : pel[i].eaten}}
    ELSE {[dots |-> ds, power_pellets |-> pel, last_respawn_time |-> last]}

\* The respawn pass that restores collectibles only.
check_snowflake_respawn_dots_only(ds, pel, last, t) ==
    IF t - last >= dot_respawn_interval
    THEN {[dots |-> [i \in 1..Len(ds) |->
                        IF i \in rd THEN [ds[i] EXCEPT !.eaten = FALSE] ELSE ds[i]],
           power_pellets |-> pel,
           last_respawn_time |-> IF Cardinality(rd) > 0 THEN t ELSE last]
            : rd \in SUBSET {i \in 1..Len(ds) : ds[i].eaten}}
    ELSE {[dots |-> ds, power_pellets |-> pel, last_respawn_time |-> last]}

check_snowflake_respawn(ds, pel, last, t) ==
    IF t - last >= dot_respawn_interval
    THEN {[dots |-> [i \in 1..Len(ds) |->
                        IF i \in rd THEN [ds[i] EXCEPT !.eaten = FALSE] ELSE ds[i]],
           power_pellets |-> [i \in 1..Len(pel) |->
                        IF i \in rp THEN [pel[i] EXCEPT !.eaten = FALSE] ELSE pel[i]],
           last_respawn_time |-> IF Cardinality(rd) + Cardinality(rp) > 0 THEN t ELSE last]
            : rd \in SUBSET {i \in 1..Len(ds) : ds[i].eaten},
              rp \in SUBSET {i \in 1..Len(pel) : pel[i].eaten}}
    ELSE {[dots |-> ds, power_pellets |-> pel, last_respawn_time |-> last]}

\* One call of websocket.send: the message type and the player it goes to.
Send(type, to) == [type |-> type, to |-> to, result |-> "pending"]

\* A send awaited inside "try: ... except: pass" (send_game_state,
\* send_leaderboard, send_player_stats): a failure is swallowed.
TrySend(type, to) ==
    [Send(type, to) EXCEPT !.result = IF to \in closing THEN "exception" ELSE "sent"]

\* The sends awaited one after the other: the first failure ends the loop and is
\* raised to the caller.
gather_sequential(tasks, failing) ==
    LET bad == {i \in 1..Len(tasks) : tasks[i].to \in failing}
        last == IF bad = {} THEN Len(tasks)
                ELSE CHOOSE i \in bad : \A j \in bad : i <= j
    IN [results |-> [i \in 1..last |->
                       [tasks[i] EXCEPT !.result = IF i \in bad THEN "exception"
                                                   ELSE "sent"]],
        raised |-> bad # {}]

\* asyncio.gather(*tasks, return_exceptions=True): every send is run, a failed
\* one yields its exception as its result, and nothing is raised to the caller.
gather(tasks, failing) ==
    [results |-> [i \in 1..Len(tasks) |->
                    [tasks[i] EXCEPT !.result = IF tasks[i].to \in failing
                                                THEN "exception" ELSE "sent"]],
     raised |-> FALSE]

\* prepare_game_state for recipient player_id, with registry ps, hunter pac and
\* arena m (0-based) holding ds and pel: the fields of every record that are
\* published, the items not consumed, the arena, and the recipient's own role and
\* id. Walls, arena name and theme are fixed by current_map.
prepare_game_state(ps, pac, m, ds, pel, player_id) ==
    [type |-> "game_state",
     players |-> [pid \in DOMAIN ps |->
                    [x |-> ps[pid].x, y |-> ps[pid].y, role |-> ps[pid].role,
                     color |-> ps[pid].color, score |-> ps[pid].score,
                     power_mode |-> ps[pid].power_mode, lives |-> ps[pid].lives,
                     name |-> ps[pid].name, voice_chat |-> ps[pid].voice_chat,
                     muted |-> ps[pid].muted]],
     dots |-> SelectSeq(ds, LAMBDA dot : ~dot.eaten),
     power_pellets |-> SelectSeq(pel, LAMBDA pellet : ~pellet.eaten),
     current_map |-> m,
     your_role |-> ps[player_id].role,
     your_id |-> player_id,
     pacman_id |-> pac]

\* websocket.send(json.dumps(game_state)) for the socket of player to: the
\* payload is serialized when the call is made.
SendState(game_state, to) ==
    [type |-> "game_state", to |-> to, result |-> "pending", game_state |-> game_state]

\* send_game_state: the snapshot of player_id, whose send is awaited inside
\* "try: ... except: pass".
send_game_state(ps, pac, m, ds, pel, player_id) ==
    [SendState(prepare_game_state(ps, pac, m, ds, pel, player_id), player_id)
        EXCEPT !.result = IF player_id \in closing THEN "exception" ELSE "sent"]

\* broadcast_game_state in which the snapshot of the first recipient is built
\* before the respawn pass and the others after it.
broadcast_game_state_respawn_between(ps, pac, m, ds, pel, earlier) ==
    \E r \in check_snowflake_respawn(ds, pel, last_respawn_time, now) :
       /\ map_dots' = [map_dots EXCEPT ![m + 1] = r.dots]
       /\ map_pellets' = [map_pellets EXCEPT ![m + 1] = r.power_pellets]
       /\ last_respawn_time' = r.last_respawn_time
       /\ LET ids == SortedIds(DOMAIN ps)
              tasks == [i \in 1..Len(ids) |->
                          SendState(IF i = 1
                                    THEN prepare_game_state(ps, pac, m, ds, pel, ids[i])
                                    ELSE prepare_game_state(ps, pac, m, r.dots,
                                                            r.power_pellets, ids[i]),
                                    ids[i])]
              g == gather(tasks, closing)
          IN sent' = [msgs |-> earlier \o g.results, raised |-> g.raised]

\* broadcast_game_state with registry ps and hunter pac on arena m (0-based)
\* holding ds and pel: the respawn pass, then one snapshot per player of the
\* registry, gathered. earlier holds the sends the handler made before it.
broadcast_game_state(ps, pac, m, ds, pel, earlier) ==
    \E r \in check_snowflake_respawn(ds, pel, last_respawn_time, now) :
       /\ map_dots' = [map_dots EXCEPT ![m + 1] = r.dots]
       /\ map_pellets' = [map_pellets EXCEPT ![m + 1] = r.power_pellets]
       /\ last_respawn_time' = r.last_respawn_time
       /\ LET ids == SortedIds(DOMAIN ps)
              tasks == [i \in 1..Len(ids) |->
                          SendState(prepare_game_state(ps, pac, m, r.dots,
                                                       r.power_pellets, ids[i]),
                                    ids[i])]
              g == gather(tasks, closing)
          IN sent' = [msgs |-> earlier \o g.results, raised |-> g.raised]


(***************************************************************************)
(* Inputs.                                                                 *)
(***************************************************************************)
NoName == "<absent>"
PlayerName(id) == "Player" \o ToString(id)

\* Positions a client reports: the hunter spawn of the first arena, one of its
\* evader spawns, and a point inside one of its trees.
InputPoints == {<<400, 500>>, <<400, 300>>, <<320, 440>>}
InputNames == {NoName, "Ann"}
MapIdInputs == (0 - 1)..NumMaps

Event(type, id, pos, name, map_id) ==
    [seq |-> events + 1, type |-> type, id |-> id, pos |-> pos, name |-> name,
     map_id |-> map_id, pac_before |-> pacman_player_id]

\* One more step (a handler run or a tick of the clock), of at most cap; with
\* NoCap the steps are not counted and a run can go on for ever.
NoCap == 0 - 1
Counted(cap) ==
    IF cap = NoCap THEN events' = events
    ELSE events < cap /\ events' = events + 1

\* The model's bounds on the counters the program leaves unbounded.
InBounds(ps) ==
    \A p \in DOMAIN ps :
        ps[p].score <= MaxScore /\ ps[p].lives >= InitialLives - MaxLivesLost

(***************************************************************************)
(* Init: the server as constructed (lines 162-200).                        *)
(***************************************************************************)
generate_snowflakes_for_map(types) ==
    [k \in 1..DotsPerMap |->
        [x |-> DotPlaces[k][1], y |-> DotPlaces[k][2], size |-> DotPlaces[k][3],
         type |-> types[k], eaten |-> FALSE]]

Init ==
    /\ players = << >>
    /\ pacman_player_id = None
    /\ player_counter = 0
    /\ connected_clients = {}
    /\ used_ghost_colors = {}
    /\ current_map = 0
    /\ \E types \in [1..DotsPerMap -> DotTypes] :
          map_dots = [m \in 1..NumMaps |-> generate_snowflakes_for_map(types)]
    /\ map_pellets = [m \in 1..NumMaps |-> generate_icicles_for_map(m)]
    /\ last_respawn_time = 0
    /\ now = 0
    /\ db_calls = << >>
    /\ last_event = [seq |-> 0, type |-> "start", id |-> None, pos |-> NoPos,
                     name |-> NoName, map_id |-> NoMap, pac_before |-> None]
    /\ events = 0
    /\ closing = {}
    /\ sent = [msgs |-> << >>, raised |-> FALSE]
    /\ waiting = {}
    /\ handlers = {}

(***************************************************************************)
(* handle_client up to its first await: a connection is registered.        *)
(***************************************************************************)
Join(cap) ==
    /\ Counted(cap)
    /\ player_counter < MaxJoins
    /\ LET player_id == player_counter + 1
           cm == maps[current_map + 1]
       IN \E rnd \in ColorDraws(used_ghost_colors) :
            LET gc == get_ghost_color(used_ghost_colors, rnd)
                rec == [x |-> cm.pacman_spawn[1], y |-> cm.pacman_spawn[2],
                        role |-> "ghost", color |-> gc.color, score |-> 0,
                        power_mode |-> FALSE, power_timer |-> 0,
                        lives |-> InitialLives, name |-> PlayerName(player_id),
                        voice_chat |-> TRUE, muted |-> FALSE]
                ps == [p \in DOMAIN players \cup {player_id} |->
                         IF p = player_id THEN rec ELSE players[p]]
            IN \E pick \in Picks(ps, pacman_player_id) :
                 LET ar == assign_roles(ps, pacman_player_id, pick)
                 IN /\ player_counter' = player_id
                    /\ connected_clients' = connected_clients \cup {player_id}
                    /\ handlers' = handlers \cup {player_id}
                    /\ used_ghost_colors' = gc.used
                    /\ players' = ar.players
                    /\ pacman_player_id' = ar.pacman_player_id
                    /\ db_calls' = << >>
                    /\ last_event' = Event("join", player_id, NoPos, NoName, NoMap)
                    /\ sent' = [msgs |-> <<send_game_state(ar.players, ar.pacman_player_id,
                                                        current_map, dots,
                                                        power_pellets, player_id)>>,
                                raised |-> FALSE]
    /\ UNCHANGED <<current_map, map_dots, map_pellets, last_respawn_time, now, closing,
                   waiting>>

(***************************************************************************)
(* cleanup_player, awaited in the "finally" of handle_client: whatever     *)
(* ended the message loop of player_id, its record is taken down.          *)
(***************************************************************************)
\* The registry and the designation cleanup_player hands to assign_roles.
cleanup_rest(ps, pac, player_id) ==
    [players |-> [p \in DOMAIN ps \ {player_id} |-> ps[p]],
     pacman_player_id |-> IF player_id = pac THEN None ELSE pac]

\* cleanup_player on world w with live sockets clients; pick is the draw of
\* assign_roles.  When the departing hunter's name cannot be bound, line 906
\* raises and nothing after it runs.
cleanup_player(w, clients, player_id, pick) ==
    LET pl == w.players[player_id]
        is_pacman == player_id = w.pacman_player_id
        rest == cleanup_rest(w.players, w.pacman_player_id, player_id)
        ar == assign_roles(rest.players, rest.pacman_player_id, pick)
    IN IF is_pacman /\ ~Bindable(pl.name)
       THEN [players |-> w.players, pacman_player_id |-> w.pacman_player_id,
             used_ghost_colors |-> w.used_ghost_colors, db_calls |-> w.db_calls,
             connected_clients |-> clients, raised |-> TRUE]
       ELSE [players |-> ar.players, pacman_player_id |-> ar.pacman_player_id,
             used_ghost_colors |->
                IF pl.role = "ghost" /\ pl.color \in w.used_ghost_colors
                THEN w.used_ghost_colors \ {pl.color} ELSE w.used_ghost_colors,
             db_calls |-> IF is_pacman
                          THEN update_player_rating(w.db_calls, pl.name, pl.score, TRUE)
                          ELSE w.db_calls,
             connected_clients |-> clients \ {player_id}, raised |-> FALSE]

\* The "finally" of handle_client for player_id, on the world w its message loop
\* left: cleanup_player runs and the coroutine finishes, by returning or with the
\* exception cleanup_player raised; either way the socket is closed afterwards.
Finally(player_id, w) ==
    /\ LET rest == cleanup_rest(w.players, w.pacman_player_id, player_id)
       IN \E pick \in Picks(rest.players, rest.pacman_player_id) :
            LET c == cleanup_player(w, connected_clients, player_id, pick)
            IN /\ players' = c.players
               /\ pacman_player_id' = c.pacman_player_id
               /\ used_ghost_colors' = c.used_ghost_colors
               /\ connected_clients' = c.connected_clients
               /\ db_calls' = c.db_calls
               /\ closing' = IF c.raised THEN closing \cup {player_id}
                                         ELSE closing \ {player_id}
    /\ handlers' = handlers \ {player_id}
    /\ sent' = [msgs |-> << >>, raised |-> FALSE]

\* The world as it stands between handler runs.
World ==
    [players |-> players, pacman_player_id |-> pacman_player_id,
     used_ghost_colors |-> used_ghost_colors, db_calls |-> << >>, raised |-> FALSE]

\* The message loop of player_id ends because its connection closed (cleanly,
\* or abruptly: ConnectionClosed is caught), and the handler cleans up.
ConnectionEnds(player_id, cap) ==
    /\ Counted(cap)
    /\ player_id \in handlers
    /\ player_id \notin waiting
    /\ Finally(player_id, World)
    /\ last_event' = Event("disconnect", player_id, NoPos, NoName, NoMap)
    /\ UNCHANGED <<player_counter, current_map, map_dots, map_pellets,
                   last_respawn_time, now, waiting>>

(***************************************************************************)
(* handle_message, type 'position' (lines 578-607), and the broadcast.     *)
(***************************************************************************)
\* The power timer that leaves power-mode one message late, when the counter
\* has gone below zero.
update_power_timer_late(pl) ==
    IF pl.power_mode
    THEN LET t == pl.power_timer - 1
         IN [pl EXCEPT !.power_timer = t, !.power_mode = ~(t < 0)]
    ELSE pl

\* Lines 603-607: the power timer of the record pl of the player that moved.
update_power_timer(pl) ==
    IF pl.power_mode
    THEN LET t == pl.power_timer - 1
         IN [pl EXCEPT !.power_timer = t, !.power_mode = ~(t <= 0)]
    ELSE pl

\* The position branch with the collision checks run for the mover whatever its
\* role.
PositionOutcomes_any_role(player_id, pt, nm) ==
    LET cm == maps[current_map + 1]
        named == IF nm # NoName THEN [players EXCEPT ![player_id].name = nm] ELSE players
        valid == get_valid_position(cm.walls, players[player_id].x, players[player_id].y,
                                    pt[1], pt[2])
        moved == [named EXCEPT ![player_id].x = valid[1], ![player_id].y = valid[2]]
        w0 == [players |-> moved, pacman_player_id |-> pacman_player_id,
               used_ghost_colors |-> used_ghost_colors, db_calls |-> << >>,
               raised |-> FALSE]
        TimerStep(w) ==
            [w EXCEPT !.players[player_id] = update_power_timer(w.players[player_id])]
    IN IF moved[player_id].role \in {"pacman", "ghost"}
       THEN LET sc == check_snowflake_collision(dots, moved[player_id].score,
                                                valid[1], valid[2])
                ic == check_icicle_collision(power_pellets,
                                             [moved[player_id] EXCEPT !.score = sc.score],
                                             valid[1], valid[2])
                w1 == [w0 EXCEPT !.players[player_id] = ic.player]
            IN {[players |-> IF w.raised THEN w.players ELSE TimerStep(w).players,
                 pacman_player_id |-> w.pacman_player_id,
                 used_ghost_colors |-> w.used_ghost_colors,
                 db_calls |-> w.db_calls, raised |-> w.raised,
                 dots |-> sc.dots, power_pellets |-> ic.power_pellets]
                  : w \in check_ghost_collision(w1, cm, player_id, valid[1], valid[2])}
       ELSE {[players |-> TimerStep(w0).players,
              pacman_player_id |-> w0.pacman_player_id,
              used_ghost_colors |-> w0.used_ghost_colors,
              db_calls |-> w0.db_calls, raised |-> FALSE,
              dots |-> dots, power_pellets |-> power_pellets]}

\* The worlds the collision checks can leave, with the arena's items:
\* [players, pacman_player_id, used_ghost_colors, db_calls, raised, dots,
\* power_pellets].
PositionOutcomes(player_id, pt, nm) ==
    LET cm == maps[current_map + 1]
        named == IF nm # NoName THEN [players EXCEPT ![player_id].name = nm] ELSE players
        valid == get_valid_position(cm.walls, players[player_id].x, players[player_id].y,
                                    pt[1], pt[2])
        moved == [named EXCEPT ![player_id].x = valid[1], ![player_id].y = valid[2]]
        w0 == [players |-> moved, pacman_player_id |-> pacman_player_id,
               used_ghost_colors |-> used_ghost_colors, db_calls |-> << >>,
               raised |-> FALSE]
        TimerStep(w) ==
            [w EXCEPT !.players[player_id] = update_power_timer(w.players[player_id])]
    IN IF moved[player_id].role = "pacman"
       THEN LET sc == check_snowflake_collision(dots, moved[player_id].score,
                                                valid[1], valid[2])
                ic == check_icicle_collision(power_pellets,
                                             [moved[player_id] EXCEPT !.score = sc.score],
                                             valid[1], valid[2])
                w1 == [w0 EXCEPT !.players[player_id] = ic.player]
            IN {[players |-> IF w.raised THEN w.players ELSE TimerStep(w).players,
                 pacman_player_id |-> w.pacman_player_id,
                 used_ghost_colors |-> w.used_ghost_colors,
                 db_calls |-> w.db_calls, raised |-> w.raised,
                 dots |-> sc.dots, power_pellets |-> ic.power_pellets]
                  : w \in check_ghost_collision(w1, cm, player_id, valid[1], valid[2])}
       ELSE {[players |-> TimerStep(w0).players,
              pacman_player_id |-> w0.pacman_player_id,
              used_ghost_colors |-> w0.used_ghost_colors,
              db_calls |-> w0.db_calls, raised |-> FALSE,
              dots |-> dots, power_pellets |-> power_pellets]}

\* When update_player_rating raised in the loop, the exception leaves
\* handle_message before the broadcast and the handler goes to its "finally".
Position(player_id, pt, nm, cap) ==
    /\ Counted(cap)
    /\ player_id \in handlers
    /\ player_id \notin waiting
    /\ \E w \in PositionOutcomes(player_id, pt, nm) :
         /\ InBounds(w.players)
         /\ IF w.raised
            THEN /\ Finally(player_id, w)
                 /\ map_dots' = [map_dots EXCEPT ![current_map + 1] = w.dots]
                 /\ map_pellets' = [map_pellets EXCEPT ![current_map + 1] = w.power_pellets]
                 /\ UNCHANGED last_respawn_time
            ELSE /\ players' = w.players
                 /\ pacman_player_id' = w.pacman_player_id
                 /\ used_ghost_colors' = w.used_ghost_colors
                 /\ db_calls' = w.db_calls
                 /\ broadcast_game_state(w.players, w.pacman_player_id, current_map, w.dots,
                                      w.power_pellets, << >>)
                 /\ UNCHANGED <<connected_clients, closing, handlers>>
    /\ last_event' = Event("position", player_id, pt, nm, NoMap)
    /\ UNCHANGED <<player_counter, current_map, now, waiting>>

(***************************************************************************)
(* handle_message, type 'change_map' (lines 626-645), and the broadcast.   *)
(***************************************************************************)
\* change_map that sends every player, whatever its role, to the hunter spawn.
ChangeMap_one_spawn(player_id, new_map, cap) ==
    /\ Counted(cap)
    /\ player_id \in handlers
    /\ player_id \notin waiting
    /\ IF 0 <= new_map /\ new_map < Len(maps)
       THEN LET current_map_data == maps[new_map + 1]
            IN /\ current_map' = new_map
               /\ players' = [pid \in DOMAIN players |->
                       [players[pid] EXCEPT !.x = current_map_data.pacman_spawn[1],
                                            !.y = current_map_data.pacman_spawn[2]]]
               /\ broadcast_game_state(players', pacman_player_id, new_map,
                                       map_dots[new_map + 1],
                                       map_pellets[new_map + 1], << >>)
       ELSE /\ UNCHANGED <<current_map, players>>
            /\ broadcast_game_state(players, pacman_player_id, current_map, dots,
                                 power_pellets, << >>)
    /\ db_calls' = << >>
    /\ last_event' = Event("change_map", player_id, NoPos, NoName, new_map)
    /\ UNCHANGED <<pacman_player_id, player_counter, connected_clients,
                   used_ghost_colors, now, closing, waiting, handlers>>

ChangeMap(player_id, new_map, cap) ==
    /\ Counted(cap)
    /\ player_id \in handlers
    /\ player_id \notin waiting
    /\ IF 0 <= new_map /\ new_map < Len(maps)
       THEN LET current_map_data == maps[new_map + 1]
            IN /\ current_map' = new_map
               /\ \E spawn_pos \in [{pid \in DOMAIN players : players[pid].role # "pacman"}
                                       -> SeqToSet(current_map_data.ghost_spawns)] :
                    players' = [pid \in DOMAIN players |->
                       IF players[pid].role = "pacman"
                       THEN [players[pid] EXCEPT !.x = current_map_data.pacman_spawn[1],
                                                 !.y = current_map_data.pacman_spawn[2]]
                       ELSE [players[pid] EXCEPT !.x = spawn_pos[pid][1],
                                                 !.y = spawn_pos[pid][2]]]
               /\ broadcast_game_state(players', pacman_player_id, new_map,
                                       map_dots[new_map + 1],
                                       map_pellets[new_map + 1], << >>)
       ELSE /\ UNCHANGED <<current_map, players>>
            /\ broadcast_game_state(players, pacman_player_id, current_map, dots,
                                 power_pellets, << >>)
    /\ db_calls' = << >>
    /\ last_event' = Event("change_map", player_id, NoPos, NoName, new_map)
    /\ UNCHANGED <<pacman_player_id, player_counter, connected_clients,
                   used_ghost_colors, now, closing, waiting, handlers>>

(***************************************************************************)
(* handle_message, the message types that leave the arena alone (lines     *)
(* 609-624 and 647-656), unknown types, and payloads that do not decode or *)
(* lack a field.                                                           *)
(***************************************************************************)
\* The handler of player_id leaves registry ps and reaches line 659 without
\* suspending: the broadcast follows in the same run.
Handled(type, player_id, ps, cap) ==
    /\ Counted(cap)
    /\ player_id \in handlers
    /\ player_id \notin waiting
    /\ players' = ps
    /\ broadcast_game_state(ps, pacman_player_id, current_map, dots, power_pellets,
                            << >>)
    /\ db_calls' = << >>
    /\ last_event' = Event(type, player_id, NoPos, NoName, NoMap)
    /\ UNCHANGED <<pacman_player_id, player_counter, connected_clients,
                   used_ghost_colors, current_map, now, closing, waiting, handlers>>

\* The handler of player_id awaits the sends in replies (a reply to the sender,
\* or the relay of an audio packet) and is suspended there: the broadcast of
\* line 659 runs when it resumes.
Suspended(type, player_id, replies, cap) ==
    /\ Counted(cap)
    /\ player_id \in handlers
    /\ player_id \notin waiting
    /\ waiting' = waiting \cup {player_id}
    /\ sent' = [msgs |-> replies, raised |-> FALSE]
    /\ db_calls' = << >>
    /\ last_event' = Event(type, player_id, NoPos, NoName, NoMap)
    /\ UNCHANGED <<players, pacman_player_id, player_counter, connected_clients,
                   used_ghost_colors, current_map, map_dots, map_pellets,
                   last_respawn_time, now, closing, handlers>>

\* The suspended handler of player_id resumes and broadcasts.
Resume(player_id, cap) ==
    /\ Counted(cap)
    /\ player_id \in handlers
    /\ player_id \in waiting
    /\ waiting' = waiting \ {player_id}
    /\ broadcast_game_state(players, pacman_player_id, current_map, dots,
                                 power_pellets, << >>)
    /\ db_calls' = << >>
    /\ last_event' = Event("resumed", player_id, NoPos, NoName, NoMap)
    /\ UNCHANGED <<players, pacman_player_id, player_counter, connected_clients,
                   used_ghost_colors, current_map, now, closing, handlers>>

\* voice_chat that writes the flag and then awaits the send of a reply before
\* it broadcasts: the write and the broadcast are in different runs.
VoiceChat_acknowledged(player_id, enabled, cap) ==
    /\ Counted(cap)
    /\ player_id \in handlers
    /\ player_id \notin waiting
    /\ players' = [players EXCEPT ![player_id].voice_chat = enabled]
    /\ waiting' = waiting \cup {player_id}
    /\ sent' = [msgs |-> <<TrySend("voice_chat", player_id)>>, raised |-> FALSE]
    /\ db_calls' = << >>
    /\ last_event' = Event("voice_chat", player_id, NoPos, NoName, NoMap)
    /\ UNCHANGED <<pacman_player_id, player_counter, connected_clients,
                   used_ghost_colors, current_map, map_dots, map_pellets,
                   last_respawn_time, now, closing, handlers>>

VoiceChat(player_id, enabled, cap) ==
    Handled("voice_chat", player_id,
            [players EXCEPT ![player_id].voice_chat = enabled], cap)

MutePlayer(player_id, target_player, muted, cap) ==
    Handled("mute_player", player_id,
            IF target_player \in DOMAIN players
            THEN [players EXCEPT ![target_player].muted = muted] ELSE players, cap)

\* The sends broadcast_voice_audio gathers for a packet of sender_id.
broadcast_voice_audio(sender_id) ==
    LET ids == SelectSeq(SortedIds(DOMAIN players),
                         LAMBDA q : /\ q # sender_id
                                    /\ players[q].voice_chat
                                    /\ ~players[q].muted
                                    /\ q \in connected_clients)
        tasks == [i \in 1..Len(ids) |-> Send("voice_audio", ids[i])]
    IN gather(tasks, closing).results

VoiceAudio(player_id, cap) ==
    IF /\ player_id \in handlers
       /\ players[player_id].voice_chat
       /\ ~players[player_id].muted
       /\ broadcast_voice_audio(player_id) # << >>
    THEN Suspended("voice_audio", player_id, broadcast_voice_audio(player_id), cap)
    ELSE Handled("voice_audio", player_id, players, cap)

GetLeaderboard(player_id, cap) ==
    Suspended("get_leaderboard", player_id, <<TrySend("leaderboard", player_id)>>, cap)

GetPlayerStats(player_id, has_username, cap) ==
    IF has_username
    THEN Suspended("get_player_stats", player_id,
                   <<TrySend("player_stats", player_id)>>, cap)
    ELSE Handled("get_player_stats", player_id, players, cap)

\* An unknown type taken as a payload to drop: no broadcast follows.
Unknown_silent(player_id, cap) ==
    /\ Counted(cap)
    /\ player_id \in handlers
    /\ player_id \notin waiting
    /\ db_calls' = << >>
    /\ sent' = [msgs |-> << >>, raised |-> FALSE]
    /\ last_event' = Event("unknown", player_id, NoPos, NoName, NoMap)
    /\ UNCHANGED <<players, pacman_player_id, player_counter, connected_clients,
                   used_ghost_colors, current_map, map_dots, map_pellets,
                   last_respawn_time, now, closing, waiting, handlers>>

\* An unknown type that falls into the voice_chat branch and switches it off.
Unknown_as_voice_chat(player_id, cap) ==
    Handled("unknown", player_id, [players EXCEPT ![player_id].voice_chat = FALSE], cap)

\* A type none of the branches names: the chain falls through to line 659.
Unknown(player_id, cap) == Handled("unknown", player_id, players, cap)

\* json.loads raises JSONDecodeError, which handle_message catches and logs.
Undecodable(player_id, cap) ==
    /\ Counted(cap)
    /\ player_id \in handlers
    /\ player_id \notin waiting
    /\ db_calls' = << >>
    /\ sent' = [msgs |-> << >>, raised |-> FALSE]
    /\ last_event' = Event("undecodable", player_id, NoPos, NoName, NoMap)
    /\ UNCHANGED <<players, pacman_player_id, player_counter, connected_clients,
                   used_ghost_colors, current_map, map_dots, map_pellets,
                   last_respawn_time, now, closing, waiting, handlers>>

\* A payload that decodes but has no 'type' ("no_type"), or has a declared type
\* and lacks a field its branch reads ("no_field"): the subscript raises KeyError
\* before anything is written, handle_message does not catch it, handle_client
\* logs it and its "finally" cleans the player up.
MalformedKinds == {"no_type", "no_field"}

Malformed(player_id, kind, cap) ==
    /\ Counted(cap)
    /\ player_id \in handlers
    /\ player_id \notin waiting
    /\ Finally(player_id, World)
    /\ last_event' = Event(kind, player_id, NoPos, NoName, NoMap)
    /\ UNCHANGED <<player_counter, current_map, map_dots, map_pellets,
                   last_respawn_time, now, waiting>>

\* The transport of player_id closes; its handler has not noticed yet.
ConnectionLost(player_id, cap) ==
    /\ Counted(cap)
    /\ player_id \in handlers
    /\ player_id \notin closing
    /\ closing' = closing \cup {player_id}
    /\ UNCHANGED <<players, pacman_player_id, player_counter, connected_clients,
                   used_ghost_colors, current_map, map_dots, map_pellets,
                   last_respawn_time, now, db_calls, last_event, sent, waiting,
                   handlers>>

(***************************************************************************)
(* The wall clock advances between handler runs.                           *)
(***************************************************************************)
Tick(cap) ==
    /\ Counted(cap)
    /\ now + dot_respawn_interval <= MaxClock
    /\ now' = now + dot_respawn_interval
    /\ UNCHANGED <<players, pacman_player_id, player_counter, connected_clients,
                   used_ghost_colors, current_map, map_dots, map_pellets,
                   last_respawn_time, db_calls, last_event, closing, sent, waiting,
                   handlers>>

Next ==
    \/ Join(MaxEvents)
    \/ \E p \in DOMAIN players : ConnectionEnds(p, MaxEvents)
    \/ \E p \in DOMAIN players, pt \in InputPoints, nm \in InputNames :
          Position(p, pt, nm, MaxEvents)
    \/ \E p \in DOMAIN players, m \in MapIdInputs : ChangeMap(p, m, MaxEvents)
    \/ Tick(MaxEvents)

Spec == Init /\ [][Next]_vars

\* Joins, disconnects and position reports at the hunter spawn of the first arena,
\* where every player starts: the runs that move the hunter role around.
RoleInputPoints == {<<400, 500>>}

NextRoles ==
    \/ Join(MaxRoleEvents)
    \/ \E p \in DOMAIN players : ConnectionEnds(p, MaxRoleEvents)
    \/ \E p \in DOMAIN players, pt \in RoleInputPoints :
          Position(p, pt, NoName, MaxRoleEvents)

SpecRoles == Init /\ [][NextRoles]_vars

\* Joins, disconnects and position reports at the hunter spawn of the first arena
\* and on its power-item at (120, 120): the runs in which the hunter is in
\* power-mode.
PowerInputPoints == {<<400, 500>>, <<120, 120>>}

NextPower ==
    \/ Join(MaxPowerEvents)
    \/ \E p \in DOMAIN players : ConnectionEnds(p, MaxPowerEvents)
    \/ \E p \in DOMAIN players, pt \in PowerInputPoints :
          Position(p, pt, NoName, MaxPowerEvents)

SpecPower == Init /\ [][NextPower]_vars

\* The session loop with every message type: joins, connections that close or
\* are lost, position reports at the hunter spawn, and all the other messages.
MsgInputPoints == {<<400, 500>>}
MsgInputNames == {NoName, NullName}

NextMsgs ==
    \/ Join(MaxMsgEvents)
    \/ Tick(MaxMsgEvents)
    \/ \E p \in DOMAIN players : ConnectionEnds(p, MaxMsgEvents)
    \/ \E p \in DOMAIN players : ConnectionLost(p, MaxMsgEvents)
    \/ \E p \in DOMAIN players, pt \in MsgInputPoints, nm \in MsgInputNames :
          Position(p, pt, nm, MaxMsgEvents)
    \/ \E p \in DOMAIN players, m \in MapIdInputs : ChangeMap(p, m, MaxMsgEvents)
    \/ \E p \in DOMAIN players, enabled \in BOOLEAN : VoiceChat(p, enabled, MaxMsgEvents)
    \/ \E p \in DOMAIN players, target \in 1..MaxJoins, muted \in BOOLEAN :
          MutePlayer(p, target, muted, MaxMsgEvents)
    \/ \E p \in DOMAIN players : VoiceAudio(p, MaxMsgEvents)
    \/ \E p \in DOMAIN players : GetLeaderboard(p, MaxMsgEvents)
    \/ \E p \in DOMAIN players, has_username \in BOOLEAN :
          GetPlayerStats(p, has_username, MaxMsgEvents)
    \/ \E p \in DOMAIN players : Unknown(p, MaxMsgEvents)
    \/ \E p \in DOMAIN players : Undecodable(p, MaxMsgEvents)
    \/ \E p \in DOMAIN players, kind \in MalformedKinds : Malformed(p, kind, MaxMsgEvents)
    \/ \E p \in DOMAIN players : Resume(p, MaxMsgEvents)

SpecMsgs == Init /\ [][NextMsgs]_vars

\* The last messages of a power-mode.  The server has run for a while: player 1
\* joined first and is the hunter, it took the power-item at (120, 120) and has
\* sent position messages from there since, so that the counter, PowerDuration
\* when the item was taken, has 1..TimerLeft left (or PowerDuration - 1: the
\* pickup was its latest message).
InitTimer ==
    /\ \E left \in (1..TimerLeft) \cup {PowerDuration - 1} :
          players = [p \in {1} |->
                       [x |-> 120, y |-> 120, role |-> "pacman", color |-> HunterColor,
                        score |-> 0, power_mode |-> TRUE, power_timer |-> left,
                        lives |-> InitialLives, name |-> PlayerName(1),
                        voice_chat |-> TRUE, muted |-> FALSE]]
    /\ pacman_player_id = 1
    /\ player_counter = 1
    /\ connected_clients = {1}
    /\ handlers = {1}
    /\ used_ghost_colors = {ghost_colors_available[1]}
    /\ current_map = 0
    /\ \E types \in [1..DotsPerMap -> DotTypes] :
          map_dots = [m \in 1..NumMaps |-> generate_snowflakes_for_map(types)]
    /\ map_pellets = [m \in 1..NumMaps |->
                        [i \in 1..Len(generate_icicles_for_map(m)) |->
                           IF m = 1 /\ i = 1
                           THEN [generate_icicles_for_map(m)[i] EXCEPT !.eaten = TRUE]
                           ELSE generate_icicles_for_map(m)[i]]]
    /\ last_respawn_time = 0
    /\ now = 0
    /\ db_calls = << >>
    /\ last_event = [seq |-> 0, type |-> "start", id |-> None, pos |-> NoPos,
                     name |-> NoName, map_id |-> NoMap, pac_before |-> None]
    /\ events = 0
    /\ closing = {}
    /\ sent = [msgs |-> << >>, raised |-> FALSE]
    /\ waiting = {}

NextTimer ==
    \/ Join(MaxTimerEvents)
    \/ Tick(MaxTimerEvents)
    \/ \E p \in DOMAIN players : ConnectionEnds(p, MaxTimerEvents)
    \/ \E p \in DOMAIN players, pt \in PowerInputPoints :
          Position(p, pt, NoName, MaxTimerEvents)
    \/ \E p \in DOMAIN players : Unknown(p, MaxTimerEvents)

SpecTimer == InitTimer /\ [][NextTimer]_vars

\* Runs without end, for what the respawn pass does in the long run.  The hunter
\* of InitTimer, its power-item consumed, keeps reporting the hunter spawn (where
\* it consumes the collectible whenever it is there) and sending other messages;
\* the arena is never switched.
InitLive ==
    /\ InitTimer
    /\ players[1].power_timer <= TimerLeft

\* dot_respawn_interval passes.  The server reads the clock only to compare
\* now - last_respawn_time with the interval and to store now, so the origin of
\* the clock is immaterial: here the reading stays and the stored time moves
\* back instead, which keeps the readings of an endless run in a finite range.
\* Once the pass is due, more time makes no difference.
TickLive ==
    /\ now - last_respawn_time < dot_respawn_interval
    /\ last_respawn_time' = last_respawn_time - dot_respawn_interval
    /\ UNCHANGED <<players, pacman_player_id, player_counter, connected_clients,
                   used_ghost_colors, current_map, map_dots, map_pellets, now,
                   db_calls, last_event, events, closing, sent, waiting, handlers>>

\* The messages of the endless runs: each of them ends with a broadcast.
BroadcastLive ==
    \/ \E p \in DOMAIN players : Unknown(p, NoCap)
    \/ \E p \in DOMAIN players : Position(p, <<400, 500>>, NoName, NoCap)

NextLive == TickLive \/ BroadcastLive

\* A broadcast whose respawn pass clears collectible i, power-item i, of the
\* active arena.  (That the pass is due follows from the rest; said first, it
\* spares evaluating the broadcast where it cannot clear anything.)
PassDue == now - last_respawn_time >= dot_respawn_interval
RespawnsDot(i) ==
    dots[i].eaten /\ PassDue /\ BroadcastLive /\ ~dots'[i].eaten
RespawnsPellet(i) ==
    power_pellets[i].eaten /\ PassDue /\ BroadcastLive /\ ~power_pellets'[i].eaten

\* Fairness: time keeps passing; and broadcasts keep occurring with a fair draw
\* of random.random(): an item that is again and again up for clearing in a due
\* pass is cleared in one of them.
SpecLive ==
    /\ InitLive
    /\ [][NextLive]_vars
    /\ WF_vars(TickLive)
    /\ \A i \in 1..DotsPerMap : SF_vars(RespawnsDot(i))
    /\ \A i \in 1..Len(generate_icicles_for_map(1)) : SF_vars(RespawnsPellet(i))


(***************************************************************************)
(* The claims.                                                             *)
(***************************************************************************)
Hunters == {p \in DOMAIN players : players[p].role = "pacman"}
Evaders == {p \in DOMAIN players : players[p].role = "ghost"}
PoolColors == SeqToSet(ghost_colors_available)

\* The step taken is the handler run of the given type for player p.
Ran(type, p) ==
    last_event'.seq = events' /\ last_event'.type = type /\ last_event'.id = p

\* What a position report pt of player p resolves to in the current state: the
\* validated position, the evaders under the hunter's box there, and whether the
\* hunter is in power-mode when the evaders are resolved.
ValidPos(p, pt) ==
    get_valid_position(maps[current_map + 1].walls, players[p].x, players[p].y,
                       pt[1], pt[2])
OverlappedEvaders(p, pt) ==
    LET v == ValidPos(p, pt)
    IN {g \in Evaders \ {p} :
          RectOverlap(v[1] - HalfPlayer, v[1] + HalfPlayer,
                      v[2] - HalfPlayer, v[2] + HalfPlayer,
                      players[g].x - HalfPlayer, players[g].x + HalfPlayer,
                      players[g].y - HalfPlayer, players[g].y + HalfPlayer)}
PowerAtResolution(p, pt) ==
    LET v == ValidPos(p, pt)
    IN players[p].power_mode \/ IcicleHit(power_pellets, v[1], v[2]) # {}

\* C1: between events there is exactly one player with role hunter when the
\* registry is non-empty and none when it is empty, and pacman_player_id names
\* exactly that player (None when the registry is empty).
C1_SingleHunter ==
    /\ \A p \in DOMAIN players : players[p].role \in {"pacman", "ghost"}
    /\ IF DOMAIN players = {}
       THEN pacman_player_id = None
       ELSE Hunters = {pacman_player_id}

\* C1's case: a position event in which the hunter died twice has just handed the
\* role to another of three connected players.
C1_Witness ==
    /\ last_event.type = "position"
    /\ Len(db_calls) = 2
    /\ Cardinality(DOMAIN players) = 3
    /\ pacman_player_id # last_event.pac_before

\* C2: whenever there is an evader and some pool colour is held by no connected
\* evader, no two connected evaders have the same colour.
C2_EvaderColorsDistinct ==
    (/\ Evaders # {}
     /\ \E c \in PoolColors : \A p \in Evaders : players[p].color # c)
    => \A p, q \in Evaders : p # q => players[p].color # players[q].color

\* C3: the colours marked used are exactly the pool colours held by connected
\* evaders.
C3_UsedIsHeld ==
    used_ghost_colors = {players[p].color : p \in Evaders} \cap PoolColors

\* C4: the current hunter's stored colour is the fixed hunter colour.
C4_HunterColor ==
    pacman_player_id # None => players[pacman_player_id].color = HunterColor

\* C5: every player's lives are in 0..3.
C5_LivesRange ==
    \A p \in DOMAIN players : players[p].lives \in 0..InitialLives

\* C6: a step that gives the hunter role to a player who was not the hunter
\* before it leaves that player with lives = 3 and score = 0.
C6_FreshHunter ==
    [][(pacman_player_id' # None /\ pacman_player_id' # pacman_player_id)
         => /\ players'[pacman_player_id'].lives = InitialLives
            /\ players'[pacman_player_id'].score = 0]_vars

\* C7: a position event of a hunter with lives = 1, not in power-mode, whose
\* validated position overlaps an evader ends with that player's lives at 0, the
\* loss recorded, and exactly one connected player as hunter.
C7_LastLifeHandoff ==
    [][\A p \in DOMAIN players :
          (/\ Ran("position", p)
           /\ p = pacman_player_id
           /\ players[p].lives = 1
           /\ ~PowerAtResolution(p, last_event'.pos)
           /\ OverlappedEvaders(p, last_event'.pos) # {})
          => /\ players'[p].lives = 0
             /\ Len(db_calls') >= 1
             /\ Cardinality(Hunters') = 1
             /\ Hunters' = {pacman_player_id'}]_vars

\* C8: a position event in which the lives of a hunter not in power-mode reach 0
\* makes exactly one rating call, for that player's name, with win = false.
C8_OneRatingCall ==
    [][\A p \in DOMAIN players :
          (/\ Ran("position", p)
           /\ p = pacman_player_id
           /\ ~PowerAtResolution(p, last_event'.pos)
           /\ players[p].lives > 0
           /\ players'[p].lives <= 0)
          => /\ Len(db_calls') = 1
             /\ db_calls'[1].username = players'[p].name
             /\ db_calls'[1].is_win = FALSE]_vars

\* C9: a rating call has win = true only when the hunter disconnects holding
\* lives > 0; a hunter disconnecting with lives <= 0 is recorded with win = false;
\* an evader's disconnect makes no rating call.
C9_WinOnlyWithLives ==
    [][last_event'.seq = events' =>
         LET p == last_event'.id
             t == last_event'.type
         IN /\ \A i \in 1..Len(db_calls') :
                 db_calls'[i].is_win =>
                    (t = "disconnect" /\ p = pacman_player_id /\ players[p].lives > 0)
            /\ (t = "disconnect" /\ p = pacman_player_id /\ players[p].lives <= 0)
                 => (Len(db_calls') = 1 /\ ~db_calls'[1].is_win)
            /\ (t = "disconnect" /\ p # pacman_player_id) => db_calls' = << >>]_vars

\* C10: after a change_map with a valid map_id, no collectible and no power-item
\* of the active arena is consumed.
C10_MapChangeClearsItems ==
    (/\ last_event.type = "change_map"
     /\ 0 <= last_event.map_id
     /\ last_event.map_id < Len(maps))
    => /\ \A i \in 1..Len(dots) : ~dots[i].eaten
       /\ \A i \in 1..Len(power_pellets) : ~power_pellets[i].eaten

\* C11: a change_map with a valid map_id makes that arena the active one and
\* leaves the hunter on its hunter spawn and every evader on one of its evader
\* spawns; a change_map with a map_id outside the range of arenas changes neither
\* the active arena nor any player's position.
C11_MapChangeRelocates ==
    [][\A p \in DOMAIN players :
          Ran("change_map", p) =>
             LET m == last_event'.map_id
             IN IF 0 <= m /\ m < Len(maps)
                THEN /\ current_map' = m
                     /\ DOMAIN players' = DOMAIN players
                     /\ \A q \in DOMAIN players' :
                           IF q = pacman_player_id'
                           THEN <<players'[q].x, players'[q].y>> = maps[m + 1].pacman_spawn
                           ELSE <<players'[q].x, players'[q].y>>
                                   \in SeqToSet(maps[m + 1].ghost_spawns)
                ELSE /\ current_map' = current_map
                     /\ DOMAIN players' = DOMAIN players
                     /\ \A q \in DOMAIN players :
                           players'[q].x = players[q].x /\ players'[q].y = players[q].y]_vars

\* C11's case: a change_map to the second arena has just run with an evader
\* connected, which now stands on one of that arena's evader spawns.
C11_Witness ==
    /\ last_event.type = "change_map"
    /\ last_event.map_id = 1
    /\ current_map = 1
    /\ \E q \in Evaders : <<players[q].x, players[q].y>> = <<450, 350>>

\* C12: a join into an empty registry (at the start or after every earlier player
\* left) makes the joining player the hunter, with lives = 3, score = 0 and the
\* fixed hunter colour.
C12_FirstJoinIsHunter ==
    [][(last_event'.seq = events' /\ last_event'.type = "join" /\ DOMAIN players = {})
         => LET p == last_event'.id
            IN /\ DOMAIN players' = {p}
               /\ pacman_player_id' = p
               /\ players'[p].role = "pacman"
               /\ players'[p].lives = InitialLives
               /\ players'[p].score = 0
               /\ players'[p].color = HunterColor]_vars

\* C12's case: a player has just joined a registry that earlier players had left
\* empty.
C12_Witness ==
    /\ last_event.type = "join"
    /\ last_event.id >= 2
    /\ last_event.pac_before = None
    /\ DOMAIN players = {last_event.id}
    /\ pacman_player_id = last_event.id

\* The registries and designations assign_roles is invoked on from the current
\* state: as they stand, with the designation cleared (the hunter's lives are
\* spent), and with one player taken out (that player's cleanup).
ReassignInputs ==
    {[ps |-> players, pac |-> pacman_player_id], [ps |-> players, pac |-> None]}
    \cup {[ps |-> [q \in DOMAIN players \ {p} |-> players[q]],
           pac |-> IF p = pacman_player_id THEN None ELSE pacman_player_id]
            : p \in DOMAIN players}

\* C13: invoking assign_roles a second time, with no change of membership in
\* between, leaves every player's record (role and colour included) and the
\* hunter designation as the first invocation left them, whatever the first
\* invocation drew.  (assign_roles never touches the used-colour set: see the
\* note at assign_roles.)
C13_ReassignIdempotent ==
    \A in \in ReassignInputs :
       \A pick \in Picks(in.ps, in.pac) :
          LET first == assign_roles(in.ps, in.pac, pick)
          IN \A again \in Picks(first.players, first.pacman_player_id) :
                assign_roles(first.players, first.pacman_player_id, again) = first

\* C13's case: three players are connected and the hunter holds a pool colour, so
\* that a first invocation draws among several players or rewrites a colour.
C13_Witness ==
    /\ Cardinality(DOMAIN players) = 3
    /\ pacman_player_id # None
    /\ players[pacman_player_id].color # HunterColor

\* The collectibles of the active arena under the box of player p at the
\* validated position of a report pt.
PickedUp(p, pt) ==
    LET v == ValidPos(p, pt) IN SnowflakeHit(dots, v[1], v[2])

\* The case of C14: the step is a position event of the hunter p whose box there
\* covers an unconsumed collectible, no unconsumed power-item and no evader.
PickupOnly(p) ==
    /\ Ran("position", p)
    /\ p = pacman_player_id
    /\ players[p].role = "pacman"
    /\ PickedUp(p, last_event'.pos) # {}
    /\ LET v == ValidPos(p, last_event'.pos) IN IcicleHit(power_pellets, v[1], v[2]) = {}
    /\ OverlappedEvaders(p, last_event'.pos) = {}

\* What C14 leaves alone whatever the clock: lives, roles, colours, the other
\* players, the hunter designation and the items of the arenas not in play.
PickupFrame(p) ==
    /\ DOMAIN players' = DOMAIN players
    /\ \A q \in DOMAIN players :
          /\ players'[q].lives = players[q].lives
          /\ players'[q].role = players[q].role
          /\ players'[q].color = players[q].color
          /\ q # p => players'[q] = players[q]
    /\ pacman_player_id' = pacman_player_id
    /\ current_map' = current_map
    /\ \A m \in 1..NumMaps :
          m # current_map + 1 =>
             map_dots'[m] = map_dots[m] /\ map_pellets'[m] = map_pellets[m]

\* C14 as stated: in its case the covered collectibles are consumed afterwards,
\* the hunter's score has grown by exactly their tier points, and the other
\* collectibles, the power-items, lives, roles, colours and all other players are
\* unchanged.
C14_PickupOnly ==
    [][\A p \in DOMAIN players :
          PickupOnly(p) =>
             LET hit == PickedUp(p, last_event'.pos)
             IN /\ \A i \in hit : dots'[i].eaten
                /\ players'[p].score = players[p].score + SumPoints(dots, hit)
                /\ \A i \in (1..Len(dots)) \ hit : dots'[i] = dots[i]
                /\ power_pellets' = power_pellets
                /\ PickupFrame(p)]_vars

\* C14 amended: as C14, except that the respawn pass of the event's broadcast,
\* which runs once dot_respawn_interval has passed since last_respawn_time, may
\* clear consumed flags of the active arena, that of the collectible just
\* consumed included; no flag is set other than those of the covered collectibles.
C14_PickupThenRespawn ==
    [][\A p \in DOMAIN players :
          PickupOnly(p) =>
             LET hit == PickedUp(p, last_event'.pos)
                 due == now - last_respawn_time >= dot_respawn_interval
                 Cleared(old, new) == old.eaten /\ new = [old EXCEPT !.eaten = FALSE]
             IN /\ players'[p].score = players[p].score + SumPoints(dots, hit)
                /\ \A i \in hit :
                      \/ dots'[i] = [dots[i] EXCEPT !.eaten = TRUE]
                      \/ due /\ dots'[i] = dots[i]
                /\ \A i \in (1..Len(dots)) \ hit :
                      dots'[i] = dots[i] \/ (due /\ Cleared(dots[i], dots'[i]))
                /\ \A i \in 1..Len(power_pellets) :
                      \/ power_pellets'[i] = power_pellets[i]
                      \/ due /\ Cleared(power_pellets[i], power_pellets'[i])
                /\ PickupFrame(p)]_vars

\* C14's case: with an evader connected and standing elsewhere, and the respawn
\* pass due, the hunter has just picked up the collectible of the first arena.
C14_Witness ==
    /\ last_event.type = "position"
    /\ last_event.id = pacman_player_id
    /\ last_event.pos = <<400, 500>>
    /\ Evaders # {}
    /\ now >= dot_respawn_interval
    /\ current_map = 0
    /\ players[pacman_player_id].score = SnowflakePoints(dots[1].type)
    /\ players[pacman_player_id].lives = InitialLives

\* The case of C15: the step is a position event of the hunter p, in power-mode,
\* whose box at the validated position covers an evader.
FreezeCase(p) ==
    /\ Ran("position", p)
    /\ p = pacman_player_id
    /\ players[p].role = "pacman"
    /\ players[p].power_mode
    /\ OverlappedEvaders(p, last_event'.pos) # {}

\* Every covered evader stands on an evader spawn of the active arena afterwards,
\* and the hunter keeps its role and its lives.
FreezeEffect(p) ==
    /\ \A g \in OverlappedEvaders(p, last_event'.pos) :
          <<players'[g].x, players'[g].y>> \in SeqToSet(maps[current_map + 1].ghost_spawns)
    /\ players'[p].role = "pacman"
    /\ pacman_player_id' = p
    /\ players'[p].lives = players[p].lives

\* C15 as stated: in its case the evaders are relocated, the hunter's role and
\* lives are unchanged and its score grows by exactly 200 per covered evader.
C15_Freeze ==
    [][\A p \in DOMAIN players :
          FreezeCase(p) =>
             /\ FreezeEffect(p)
             /\ players'[p].score = players[p].score
                    + 200 * Cardinality(OverlappedEvaders(p, last_event'.pos))]_vars

\* C15 amended: the score grows by 200 per covered evader on top of the tier
\* points of the collectibles the same event picks up.
C15_FreezeAndPickups ==
    [][\A p \in DOMAIN players :
          FreezeCase(p) =>
             /\ FreezeEffect(p)
             /\ players'[p].score = players[p].score
                    + SumPoints(dots, PickedUp(p, last_event'.pos))
                    + 200 * Cardinality(OverlappedEvaders(p, last_event'.pos))]_vars

\* C15's case: a hunter in power-mode has just frozen two evaders in one event.
C15_Witness ==
    /\ last_event.type = "position"
    /\ last_event.id = pacman_player_id
    /\ players[pacman_player_id].power_mode
    /\ players[pacman_player_id].score >= 2 * FreezeBonus
    /\ players[pacman_player_id].lives = InitialLives
    /\ Cardinality(Evaders) = 2
    /\ \A g \in Evaders :
          <<players[g].x, players[g].y>> \in SeqToSet(maps[current_map + 1].ghost_spawns)

\* The world state: everything the server keeps, the clock and the records of
\* the latest run aside.
world == <<players, pacman_player_id, player_counter, connected_clients,
           used_ghost_colors, current_map, map_dots, map_pellets, last_respawn_time>>

\* C16: a malformed payload of player p (one that does not decode, one without
\* the type field, one without a field its type requires) is dropped: p's socket
\* stays among the live connections, p's record stays in the registry and the
\* world state is unchanged.
C16_MalformedDropped ==
    [][\A p \in DOMAIN players :
          (\/ Ran("undecodable", p)
           \/ Ran("no_type", p)
           \/ Ran("no_field", p))
          => /\ p \in connected_clients'
             /\ p \in DOMAIN players'
             /\ world' = world]_vars

\* C17: whenever the connection of player p ends (its handler finishes, after a
\* clean or abrupt close or an error in the handling of one of its messages),
\* p's record is absent from the registry and p's socket from the live
\* connections afterwards, and if p was the hunter and players remain, exactly
\* one of them is hunter.
C17_CleanupOnEnd ==
    [][\A p \in handlers :
          p \notin handlers'
          => /\ p \notin DOMAIN players'
             /\ p \notin connected_clients'
             /\ (p = pacman_player_id /\ DOMAIN players' # {})
                   => /\ Cardinality(Hunters') = 1
                      /\ pacman_player_id' \in Hunters']_vars

\* The message types handle_message dispatches on, and "unknown" for any other.
DispatchTypes == {"position", "change_map", "voice_chat", "voice_audio", "mute_player",
                  "get_leaderboard", "get_player_stats", "unknown"}

\* The sends of the latest run hold one broadcast: one game_state per player of
\* the registry, each player once, and every live connection is among them.
FullBroadcast ==
    LET gs == {i \in 1..Len(sent.msgs) : sent.msgs[i].type = "game_state"}
    IN /\ \A q \in DOMAIN players : Cardinality({i \in gs : sent.msgs[i].to = q}) = 1
       /\ \A i \in gs : sent.msgs[i].to \in DOMAIN players
       /\ connected_clients \subseteq DOMAIN players

\* C18: a message of player p that is dispatched without an error (p's handler
\* goes on) ends with one full broadcast of game_state in the same run, or p's
\* handler is suspended in a send; a suspended handler does nothing but resume,
\* and resuming it makes the full broadcast: no other message of p is dispatched
\* in between.
C18_BroadcastAfterDispatch ==
    [][\A p \in handlers :
          /\ ((\E t \in DispatchTypes : Ran(t, p)) /\ p \in handlers')
                => \/ FullBroadcast' /\ p \notin waiting'
                   \/ p \in waiting'
          /\ (p \in waiting /\ last_event'.seq = events' /\ last_event'.id = p)
                => /\ Ran("resumed", p)
                   /\ FullBroadcast'
                   /\ p \notin waiting']_vars

\* C18's case: with two players connected, a message of a type without a handler
\* has been dispatched and a snapshot went to both.
C18_Witness ==
    /\ last_event.type = "unknown"
    /\ last_event.seq = events
    /\ Cardinality(DOMAIN players) = 2
    /\ FullBroadcast
    /\ Len(sent.msgs) = 2

\* The positions in the sends of the latest run that hold a snapshot.
Snapshots == {i \in 1..Len(sent.msgs) : sent.msgs[i].type = "game_state"}

\* C19: in every run of player p's handler that broadcasts, whatever recipients
\* fail, each player whose socket has not failed is sent a snapshot that is
\* delivered, no recipient is sent a second one (a failed send is not retried),
\* nothing is raised out of the broadcast and p's handler goes on.
C19_FailureIsolated ==
    [][\A p \in handlers :
          ((\E t \in DispatchTypes \cup {"resumed"} : Ran(t, p)) /\ Snapshots' # {})
          => /\ \A q \in DOMAIN players' \ closing' :
                   \E i \in Snapshots' : /\ sent'.msgs[i].to = q
                                          /\ sent'.msgs[i].result = "sent"
             /\ \A q \in DOMAIN players' :
                   Cardinality({i \in Snapshots' : sent'.msgs[i].to = q}) = 1
             /\ ~sent'.raised
             /\ p \in handlers']_vars

\* C19's case: a broadcast in which the send to one recipient failed and a
\* recipient later in the order was delivered its snapshot.
C19_Witness ==
    /\ last_event.seq = events
    /\ last_event.type \in DispatchTypes
    /\ ~sent.raised
    /\ \E i, j \in Snapshots :
          /\ i < j
          /\ sent.msgs[i].result = "exception"
          /\ sent.msgs[j].result = "sent"

\* C20 as stated: a message of player p with an undeclared type changes no
\* player record, no role or colour assignment, no arena selection and no
\* consumed flag, and p's connection stays open.
C20_UnknownIgnored ==
    [][\A p \in handlers :
          Ran("unknown", p)
          => /\ players' = players
             /\ pacman_player_id' = pacman_player_id
             /\ used_ghost_colors' = used_ghost_colors
             /\ current_map' = current_map
             /\ map_dots' = map_dots
             /\ map_pellets' = map_pellets
             /\ p \in handlers'
             /\ p \in connected_clients']_vars

\* items2 is items with some consumed flags cleared and nothing else changed.
OnlyCleared(items, items2) ==
    /\ Len(items2) = Len(items)
    /\ \A i \in 1..Len(items) :
          /\ items2[i] = [items[i] EXCEPT !.eaten = items2[i].eaten]
          /\ items2[i].eaten => items[i].eaten

\* C20 amended: the records, roles, colours and the arena selection are
\* unchanged and the connection stays open; the consumed flags change only by
\* the respawn pass of the broadcast that ends the dispatch, which clears flags
\* of the active arena and does so only once 30 time units have passed since the
\* last respawn.
C20_UnknownOnlyRespawns ==
    [][\A p \in handlers :
          Ran("unknown", p)
          => /\ players' = players
             /\ pacman_player_id' = pacman_player_id
             /\ used_ghost_colors' = used_ghost_colors
             /\ current_map' = current_map
             /\ p \in handlers'
             /\ p \in connected_clients'
             /\ \A m \in 1..NumMaps :
                   /\ OnlyCleared(map_dots[m], map_dots'[m])
                   /\ OnlyCleared(map_pellets[m], map_pellets'[m])
                   /\ (m # current_map + 1 \/ now - last_respawn_time < dot_respawn_interval)
                         => /\ map_dots'[m] = map_dots[m]
                            /\ map_pellets'[m] = map_pellets[m]]_vars

\* C20's case: a message of an undeclared type has been dispatched after the
\* hunter scored and the clock advanced, and the respawn pass has run at the
\* current time: no collectible of the active arena is consumed.
C20_Witness ==
    /\ last_event.type = "unknown"
    /\ last_event.seq = events
    /\ now > 0
    /\ last_respawn_time = now
    /\ \E p \in DOMAIN players : players[p].score > 0
    /\ \A i \in 1..Len(dots) : ~dots[i].eaten

\* The step taken is a handler run (a join, a message, a resumption or the end
\* of a connection) of player q.
RanAny(q) == last_event'.seq = events' /\ last_event'.id = q

\* C21 as stated: while the handler of p is between the start of a dispatch and
\* the end of the broadcast it leads to, no run of another connection (a
\* message, a join, a disconnect) changes the world state.
C21_NoInterleaving ==
    [][\A p \in waiting :
          \A q \in (1..MaxJoins) \ {p} : RanAny(q) => world' = world]_vars

\* The types whose branch writes to the world, and the types whose branch awaits
\* a send before the broadcast.
WritingTypes == {"position", "change_map", "voice_chat", "mute_player"}
SuspendingTypes == {"get_leaderboard", "get_player_stats", "voice_audio"}

\* C21 amended: the messages of a connection are processed in arrival order (a
\* suspended handler of p only resumes); a dispatch that writes to the world, or
\* of an unknown type, builds its broadcast in the same uninterrupted run; a
\* dispatch that suspends in the send of a reply or relay has written nothing to
\* the world when it suspends, and writes nothing but the respawn pass when it
\* resumes: no dispatch has writes on both sides of a suspension.
C21_WritesNotSplit ==
    [][\A p \in handlers :
          /\ (p \in waiting /\ RanAny(p)) => Ran("resumed", p)
          /\ ((\E t \in WritingTypes \cup {"unknown"} : Ran(t, p)) /\ p \in handlers')
                => p \notin waiting' /\ FullBroadcast'
          /\ ((\E t \in DispatchTypes : Ran(t, p)) /\ p \in waiting')
                => /\ last_event'.type \in SuspendingTypes
                   /\ world' = world
          /\ Ran("resumed", p)
                => /\ players' = players
                   /\ pacman_player_id' = pacman_player_id
                   /\ used_ghost_colors' = used_ghost_colors
                   /\ connected_clients' = connected_clients
                   /\ current_map' = current_map]_vars

\* C21's case: while one handler is suspended before its broadcast, a position
\* message of another connection has been processed and broadcast.
C21_Witness ==
    /\ waiting # {}
    /\ last_event.seq = events
    /\ last_event.type = "position"
    /\ last_event.id \notin waiting
    /\ FullBroadcast

\* The case of C22: the step is a position event of the hunter p, not in
\* power-mode, whose box at the validated position covers an unconsumed
\* power-item and an evader.
PickupAndOverlap(p) ==
    /\ Ran("position", p)
    /\ p = pacman_player_id
    /\ players[p].role = "pacman"
    /\ ~players[p].power_mode
    /\ LET v == ValidPos(p, last_event'.pos) IN IcicleHit(power_pellets, v[1], v[2]) # {}
    /\ OverlappedEvaders(p, last_event'.pos) # {}

\* C22: in that case the pickup is resolved first: the hunter is in power-mode
\* afterwards, every covered evader is relocated to an evader spawn, the hunter
\* gains 200 per covered evader (on top of the collectibles it picks up), and it
\* keeps its lives and its role.
C22_PickupBeforeOverlap ==
    [][\A p \in DOMAIN players :
          PickupAndOverlap(p) =>
             /\ FreezeEffect(p)
             /\ players'[p].power_mode
             /\ players'[p].score = players[p].score
                    + SumPoints(dots, PickedUp(p, last_event'.pos))
                    + FreezeBonus * Cardinality(OverlappedEvaders(p, last_event'.pos))]_vars

\* C22's case: the hunter has just taken the power-item at (120, 120) with an
\* evader standing on it: the timer shows the pickup of this event, the bonus
\* is in the score, no life is lost and the evader is on an evader spawn.
C22_Witness ==
    /\ last_event.type = "position"
    /\ last_event.seq = events
    /\ last_event.id = pacman_player_id
    /\ last_event.pos = <<120, 120>>
    /\ players[pacman_player_id].power_mode
    /\ players[pacman_player_id].power_timer = PowerDuration - 1
    /\ players[pacman_player_id].score >= FreezeBonus
    /\ players[pacman_player_id].lives = InitialLives
    /\ \E g \in Evaders :
          <<players[g].x, players[g].y>> \in SeqToSet(maps[current_map + 1].ghost_spawns)

\* The power-items the box of p covers at the validated position of pt.
PowerPicked(p, pt) ==
    LET v == ValidPos(p, pt) IN IcicleHit(power_pellets, v[1], v[2])

\* What a step does to the power-mode and the counter of p: a position message
\* of the hunter p that covers a power-item leaves power-mode on and the counter
\* at PowerDuration less the 1 of the message itself; any other position message
\* of p in power-mode takes 1 off and leaves power-mode exactly when the counter
\* reaches 0; nothing else changes either.
PowerTimerStep(p) ==
    IF Ran("position", p)
    THEN IF players[p].role = "pacman" /\ PowerPicked(p, last_event'.pos) # {}
         THEN /\ players'[p].power_mode
              /\ players'[p].power_timer = PowerDuration - 1
         ELSE IF players[p].power_mode
         THEN /\ players'[p].power_timer = players[p].power_timer - 1
              /\ players'[p].power_mode = (players'[p].power_timer # 0)
         ELSE /\ ~players'[p].power_mode
              /\ players'[p].power_timer = players[p].power_timer
    ELSE /\ players'[p].power_mode = players[p].power_mode
         /\ players'[p].power_timer = players[p].power_timer

\* C23 as stated: every power-item the hunter picks up is consumed afterwards,
\* and power-mode and the counter move as PowerTimerStep says.
C23_PowerTimer ==
    [][\A p \in DOMAIN players \cap DOMAIN players' :
          /\ PowerTimerStep(p)
          /\ (Ran("position", p) /\ players[p].role = "pacman")
                => \A i \in PowerPicked(p, last_event'.pos) : power_pellets'[i].eaten]_vars

\* C23 amended: as C23, except that the respawn pass of the event's broadcast,
\* once dot_respawn_interval has passed since last_respawn_time, may clear the
\* consumed flag of the power-item just picked up.
C23_PowerTimerThenRespawn ==
    [][\A p \in DOMAIN players \cap DOMAIN players' :
          /\ PowerTimerStep(p)
          /\ (Ran("position", p) /\ players[p].role = "pacman")
                => \A i \in PowerPicked(p, last_event'.pos) :
                      \/ power_pellets'[i] = [power_pellets[i] EXCEPT !.eaten = TRUE]
                      \/ /\ now - last_respawn_time >= dot_respawn_interval
                         /\ power_pellets'[i] = power_pellets[i]]_vars

\* C23's case: the position message that took the counter from 1 to 0 has been
\* processed and the hunter has left power-mode.
C23_Witness ==
    /\ last_event.type = "position"
    /\ last_event.seq = events
    /\ last_event.id = pacman_player_id
    /\ events = TimerLeft
    /\ players[pacman_player_id].role = "pacman"
    /\ ~players[pacman_player_id].power_mode
    /\ players[pacman_player_id].power_timer = 0
    /\ power_pellets[1].eaten

\* The case of C24: the step is a position event of the hunter p, not in
\* power-mode and with more than one life, whose box at the validated position
\* covers exactly one evader.
LifeLossCase(p) ==
    /\ Ran("position", p)
    /\ p = pacman_player_id
    /\ players[p].role = "pacman"
    /\ ~players[p].power_mode
    /\ players[p].lives > 1
    /\ Cardinality(OverlappedEvaders(p, last_event'.pos)) = 1

\* The hunter p has one life less, is still the hunter and stands on the hunter
\* spawn of the active arena.
LifeLossEffect(p) ==
    /\ players'[p].lives = players[p].lives - 1
    /\ players'[p].role = "pacman"
    /\ pacman_player_id' = p
    /\ <<players'[p].x, players'[p].y>> = maps[current_map + 1].pacman_spawn

\* C24 as stated: in its case, on any event and so on consecutive ones, the
\* hunter loses one life, keeps its role and its score and is relocated.
C24_LifeLoss ==
    [][\A p \in DOMAIN players :
          LifeLossCase(p) =>
             /\ LifeLossEffect(p)
             /\ players'[p].score = players[p].score]_vars

\* C24 amended: when the hunter's box covers no unconsumed power-item (which
\* would put it in power-mode before the evader is resolved), it loses one life,
\* keeps its role and is relocated, and its score grows by the tier points of the
\* collectibles the same event picks up, and by nothing else.
C24_LifeLossAfterPickups ==
    [][\A p \in DOMAIN players :
          (LifeLossCase(p) /\ PowerPicked(p, last_event'.pos) = {}) =>
             /\ LifeLossEffect(p)
             /\ players'[p].score = players[p].score
                    + SumPoints(dots, PickedUp(p, last_event'.pos))]_vars

\* C24's case: with one evader connected, the hunter's third and fourth events
\* were position events on the evader: two lives went on consecutive events.
C24_Witness ==
    /\ last_event.type = "position"
    /\ last_event.seq = events
    /\ last_event.id = pacman_player_id
    /\ events = 4
    /\ player_counter = 2
    /\ Cardinality(Evaders) = 1
    /\ players[pacman_player_id].role = "pacman"
    /\ players[pacman_player_id].lives = InitialLives - 2
    /\ <<players[pacman_player_id].x, players[pacman_player_id].y>>
          = maps[current_map + 1].pacman_spawn

\* The collectibles and the power-items of arena m (1-based) that the step
\* itself consumes before its broadcast: those under the hunter's position event.
DotsTaken(m) ==
    UNION {PickedUp(p, last_event'.pos) :
             p \in {q \in DOMAIN players : /\ Ran("position", q)
                                            /\ players[q].role = "pacman"
                                            /\ m = current_map + 1}}
PelletsTaken(m) ==
    UNION {PowerPicked(p, last_event'.pos) :
             p \in {q \in DOMAIN players : /\ Ran("position", q)
                                            /\ players[q].role = "pacman"
                                            /\ m = current_map + 1}}

\* The step clears the consumed flag of some collectible or power-item that was
\* consumed before the step or by it.
ClearsFlag ==
    \E m \in 1..NumMaps :
       \/ \E i \in 1..Len(map_dots[m]) :
             /\ map_dots[m][i].eaten \/ i \in DotsTaken(m)
             /\ ~map_dots'[m][i].eaten
       \/ \E i \in 1..Len(map_pellets[m]) :
             /\ map_pellets[m][i].eaten \/ i \in PelletsTaken(m)
             /\ ~map_pellets'[m][i].eaten

\* C25: a step clears a consumed flag only when dot_respawn_interval has passed
\* since last_respawn_time, and it then sets last_respawn_time to the current
\* time; a step that clears nothing leaves last_respawn_time as it is, so the
\* pass stays due for the next broadcast.
C25_RespawnTimer ==
    [][/\ ClearsFlag => /\ now - last_respawn_time >= dot_respawn_interval
                        /\ last_respawn_time' = now
       /\ ~ClearsFlag => last_respawn_time' = last_respawn_time]_vars

\* C25's case: with a consumed power-item in play and the interval passed, a
\* broadcast has just run its pass, the pass cleared nothing, and it is still
\* due.
C25_Witness ==
    /\ last_event.seq = events
    /\ last_event.type = "unknown"
    /\ now - last_respawn_time >= dot_respawn_interval
    /\ \E i \in 1..Len(power_pellets) : power_pellets[i].eaten

\* The case of C26: the step is a position event of the evader p.
EvaderMoves(p) == Ran("position", p) /\ players[p].role = "ghost"

\* Of the records, the event changes the position and the name of p only, and
\* the hunter designation stays.
EvaderMoveFrame(p) ==
    /\ DOMAIN players' = DOMAIN players
    /\ \A q \in DOMAIN players \ {p} : players'[q] = players[q]
    /\ players'[p] = [players[p] EXCEPT !.x = players'[p].x, !.y = players'[p].y,
                                        !.name = players'[p].name]
    /\ pacman_player_id' = pacman_player_id

\* C26 as stated: a position event of an evader changes its own position and
\* name and nothing else: no other field of any record, no hunter designation
\* and no consumed flag.
C26_EvaderMoveOnly ==
    [][\A p \in DOMAIN players :
          EvaderMoves(p) =>
             /\ EvaderMoveFrame(p)
             /\ map_dots' = map_dots
             /\ map_pellets' = map_pellets]_vars

\* C26 amended: the records are as C26 says; the consumed flags change only by
\* the respawn pass of the event's broadcast, which clears flags of the active
\* arena once dot_respawn_interval has passed since last_respawn_time and sets
\* none.
C26_EvaderMoveThenRespawn ==
    [][\A p \in DOMAIN players :
          EvaderMoves(p) =>
             /\ EvaderMoveFrame(p)
             /\ \A m \in 1..NumMaps :
                   /\ OnlyCleared(map_dots[m], map_dots'[m])
                   /\ OnlyCleared(map_pellets[m], map_pellets'[m])
                   /\ (m # current_map + 1 \/ now - last_respawn_time < dot_respawn_interval)
                         => /\ map_dots'[m] = map_dots[m]
                            /\ map_pellets'[m] = map_pellets[m]]_vars

\* C26's case: an evader has just reported a position on the hunter, over the
\* collectible of the arena, which is still there.
C26_Witness ==
    /\ last_event.type = "position"
    /\ last_event.seq = events
    /\ last_event.id \in Evaders
    /\ pacman_player_id \in DOMAIN players
    /\ players[last_event.id].x = players[pacman_player_id].x
    /\ players[last_event.id].y = players[pacman_player_id].y
    /\ SnowflakeHit(dots, players[last_event.id].x, players[last_event.id].y) # {}
    /\ players[pacman_player_id].lives = InitialLives

\* C27: in the endless runs with time passing, broadcasts occurring, the arena
\* unchanged and fair respawn draws, every consumed collectible and power-item
\* of the active arena is eventually unconsumed again.
C27_EventuallyRespawned ==
    /\ \A i \in 1..DotsPerMap : dots[i].eaten ~> ~dots[i].eaten
    /\ \A i \in 1..Len(generate_icicles_for_map(1)) :
          power_pellets[i].eaten ~> ~power_pellets[i].eaten

\* C27's case: the power-item that was consumed at the start is back, and so is
\* the collectible the hunter consumed since.
C27_Witness ==
    /\ events = 0
    /\ last_event.type \in {"position", "unknown"}
    /\ \E p \in DOMAIN players : players[p].score > 0
    /\ \A i \in 1..Len(dots) : ~dots[i].eaten
    /\ \A i \in 1..Len(power_pellets) : ~power_pellets[i].eaten
    /\ last_respawn_time = now

\* C28: between events, no player with role evader is in power-mode.
C28_EvadersNotPowered ==
    \A p \in DOMAIN players : players[p].role = "ghost" => ~players[p].power_mode

\* C28's case: player 1, the hunter that was in power-mode at the start, has
\* lost its last life since and is an evader, while another player is the hunter.
C28_Witness ==
    /\ 1 \in DOMAIN players
    /\ players[1].role = "ghost"
    /\ players[1].lives <= 0
    /\ pacman_player_id \in DOMAIN players
    /\ pacman_player_id # 1

\* C29: between events, every player with role evader holds a colour of the
\* evader colour pool, never the fixed hunter colour.
C29_EvaderPoolColor ==
    \A p \in Evaders : players[p].color \in PoolColors /\ players[p].color # HunterColor

\* The fields of a record of the registry that a snapshot publishes.
Published(pdata) ==
    [x |-> pdata.x, y |-> pdata.y, role |-> pdata.role, color |-> pdata.color,
     score |-> pdata.score, power_mode |-> pdata.power_mode, lives |-> pdata.lives,
     name |-> pdata.name, voice_chat |-> pdata.voice_chat, muted |-> pdata.muted]

\* The items of a list that are not consumed, in the order of the list.
Unconsumed(items) == SelectSeq(items, LAMBDA item : ~item.eaten)

\* C30: the snapshots of the latest run agree on every player's fields, on the
\* lists of items, on the active arena and on the hunter id; each carries its
\* recipient's id and that recipient's role; and they show the world as the run
\* left it: the published fields of the registry, exactly the unconsumed items of
\* the active arena, the active arena and the current hunter designation.
C30_SnapshotsOfOneState ==
    /\ \A i, j \in Snapshots :
          /\ sent.msgs[i].game_state.players = sent.msgs[j].game_state.players
          /\ sent.msgs[i].game_state.dots = sent.msgs[j].game_state.dots
          /\ sent.msgs[i].game_state.power_pellets = sent.msgs[j].game_state.power_pellets
          /\ sent.msgs[i].game_state.current_map = sent.msgs[j].game_state.current_map
          /\ sent.msgs[i].game_state.pacman_id = sent.msgs[j].game_state.pacman_id
    /\ \A i \in Snapshots :
          LET game_state == sent.msgs[i].game_state
          IN /\ game_state.your_id = sent.msgs[i].to
             /\ game_state.your_id \in DOMAIN players
             /\ game_state.your_role = players[game_state.your_id].role
             /\ game_state.players = [pid \in DOMAIN players |-> Published(players[pid])]
             /\ game_state.dots = Unconsumed(dots)
             /\ game_state.power_pellets = Unconsumed(power_pellets)
             /\ game_state.current_map = current_map
             /\ game_state.pacman_id = pacman_player_id

\* C30's case: a broadcast to a hunter and an evader whose respawn pass has just
\* restored an item, so that the snapshots list an item that was consumed when
\* the message arrived.
C30_Witness ==
    /\ last_event.seq = events
    /\ last_event.type \in {"position", "unknown"}
    /\ Cardinality(Snapshots) >= 2
    /\ \E i, j \in Snapshots :
          sent.msgs[i].game_state.your_role # sent.msgs[j].game_state.your_role
    /\ now > 0
    /\ last_respawn_time = now
    /\ \A i \in Snapshots :
          Len(sent.msgs[i].game_state.power_pellets) = Len(power_pellets)

====
